---- MODULE Spec2Model ----
(***************************************************************************)
(* A model of raspyman, the administrative console of a chat/IM server:    *)
(*   - the REST client of utils.py (one operator per API function, over a  *)
(*     model of what httpx and the server can answer),                     *)
(*   - the page controllers that feed CRUDList (users, sessions, rooms),   *)
(*   - the directory controller (categories, keyword cache, switcher).     *)
(* JSON strings and numbers are small naturals; 0 stands for "" and 0.     *)
(***************************************************************************)
EXTENDS Integers, Sequences, FiniteSets, TLC

VARIABLES
    api_url,      \* RasApiSettings.api_url: "" when not configured
    call,         \* the API client call made last: function, server answers, result
    page,         \* the page mounted: users, sessions, chatrooms or directory
    items,        \* the controller's collection (users / sessions / chat_rooms)
    is_loading,   \* the controller's is_loading
    has_error,    \* the controller's has_error
    banner_text,  \* the controller's banner_text ("" when no banner)
    banner_style, \* the controller's banner_style
    tasks,        \* the handler coroutines in flight, each with its position
    rendered,     \* the rows CRUDList.build made of the items, with their callbacks
    last_event,   \* what the step just taken did: a row press, a load or a delete
    categories,           \* DirectoryPage.categories
    category_keywords,    \* DirectoryPage.category_keywords: id -> keyword list
    category_loading,     \* DirectoryPage.category_loading: id -> BOOLEAN
    selected_category_id, \* DirectoryPage.selected_category_id
    dir_banner,           \* DirectoryPage.banner_text / banner_style
    dir_flags,            \* DirectoryPage.is_loading / has_error
    dir_tasks,            \* the directory handler coroutines in flight
    dir_last,             \* what the directory step just taken did
    stats,                \* DashboardPage: per stat its value, loading and error flag
    is_loading_timeout,   \* DashboardPage.is_loading_timeout
    timer,                \* the task behind DashboardPage._timeout_task
    loads,                \* load_stats and its four _load_X coroutines
    dash_last,            \* what the dashboard step just taken did
    title,                \* CRUDList.title, as its characters
    item_name,            \* the singular label CRUDList.build derives from the title
    ud_screen_name,       \* UserDetailsPage.screen_name (0 is "")
    ud_user,              \* UserDetailsPage.user: "None" or "User"
    ud_sessions,          \* UserDetailsPage.sessions
    ud_is_loading,        \* UserDetailsPage.is_loading
    ud_has_error,         \* UserDetailsPage.has_error
    ud_banner,            \* UserDetailsPage.banner_text ("" when no banner)
    ud_tasks,             \* the load_user_details coroutines in flight
    ud_last,              \* what the user-details step just taken did
    message_input,        \* MessageComposer.message_input
    is_sending,           \* MessageComposer.is_sending
    send_error,           \* MessageComposer.send_error
    send_success,         \* MessageComposer.send_success
    sends                 \* the on_send_message coroutines awaiting the server

apiVars  == <<api_url, call>>
pageVars == <<page, items, is_loading, has_error, banner_text, banner_style,
              tasks, rendered, last_event>>
dirVars  == <<categories, category_keywords, category_loading, selected_category_id,
              dir_banner, dir_flags, dir_tasks, dir_last>>
dashVars == <<stats, is_loading_timeout, timer, loads, dash_last>>
labelVars == <<title, item_name>>
detailVars == <<ud_screen_name, ud_user, ud_sessions, ud_is_loading, ud_has_error,
                ud_banner, ud_tasks, ud_last>>
composerVars == <<message_input, is_sending, send_error, send_success, sends>>
vars == <<api_url, call, page, items, is_loading, has_error, banner_text,
          banner_style, tasks, rendered, last_event,
          categories, category_keywords, category_loading, selected_category_id,
          dir_banner, dir_flags, dir_tasks, dir_last,
          stats, is_loading_timeout, timer, loads, dash_last, title, item_name,
          ud_screen_name, ud_user, ud_sessions, ud_is_loading, ud_has_error,
          ud_banner, ud_tasks, ud_last,
          message_input, is_sending, send_error, send_success, sends>>

(***************************************************************************)
(* Bounds of the model.                                                    *)
(***************************************************************************)
\* the longest JSON list a server answer carries
MaxItems == 2
\* JSON field values range over 0..MaxVal
MaxVal == 1
\* the most handler coroutines in flight at once
MaxTasks == 2
\* the longest keyword list one keyword endpoint answers with
MaxKwItems == 1
\* the longest collection a page controller is given by the server
MaxRows == 2

\* a JSON record without the field
Absent == -1

Values == 0..MaxVal

RECURSIVE SeqsUpTo(_, _)
SeqsUpTo(S, n) ==
    IF n = 0 THEN {<<>>}
    ELSE LET shorter == SeqsUpTo(S, n - 1)
         IN  shorter \cup {Append(s, x) : s \in {t \in shorter : Len(t) = n - 1}, x \in S}

(***************************************************************************)
(* JSON as the server sends it.  An element of a list is a key-value       *)
(* record (isdict) with some of its fields, or something else (a number).  *)
(***************************************************************************)
NonDict == [isdict |-> FALSE, id |-> Absent, name |-> Absent, cat |-> Absent, parent |-> Absent]

\* records with id and name (screen_name), each present or missing
PlainElems ==
    [isdict : {TRUE}, id : Values \cup {Absent}, name : Values \cup {Absent},
     cat : {Absent}, parent : {Absent}] \cup {NonDict}

PScalar(t) ==
    [t |-> t, items |-> <<>>, has_sessions |-> FALSE, has_count |-> FALSE,
     st |-> "none", sitems |-> <<>>]

PList(xs) ==
    [t |-> "list", items |-> xs, has_sessions |-> FALSE, has_count |-> FALSE,
     st |-> "none", sitems |-> <<>>]

\* a JSON object; st/sitems describe the value under "sessions" when present
PDict(hs, hc, st, xs) ==
    [t |-> "dict", items |-> <<>>, has_sessions |-> hs, has_count |-> hc,
     st |-> st, sitems |-> xs]

\* the body is not JSON at all (empty, HTML, ...)
NotJson == PScalar("notjson")
\* JSON null, which response.json() turns into None
PNull == PScalar("null")

ScalarBodies == {PScalar("notjson"), PScalar("null"), PScalar("int"), PScalar("str")}

ListBodies(E) == {PList(xs) : xs \in SeqsUpTo(E, MaxItems)}

\* what /user, /chat/room/public, /directory/category can answer with
ListEndpointBodies ==
    ScalarBodies \cup ListBodies(PlainElems) \cup {PDict(FALSE, FALSE, "none", <<>>)}

\* what /session can answer with
SessionEndpointBodies ==
    ScalarBodies \cup ListBodies({NonDict})
      \cup {PDict(FALSE, FALSE, "none", <<>>), PDict(FALSE, TRUE, "none", <<>>)}
      \cup {PDict(TRUE, FALSE, "list", xs) : xs \in SeqsUpTo(PlainElems, MaxItems)}
      \cup {PDict(TRUE, FALSE, "int", <<>>), PDict(TRUE, FALSE, "null", <<>>)}

(***************************************************************************)
(* What one HTTP request can meet: no connection, a timeout, or an answer  *)
(* with a status code and a body.  204 carries no body; the body of an     *)
(* error answer is never parsed, so it is left empty.                      *)
(***************************************************************************)
StatusCodes == {200, 201, 202, 204, 301, 404, 500}

Is2xx(s) == s >= 200 /\ s <= 299

Unreached == {[net |-> n, status |-> 0, body |-> NotJson] : n \in {"refused", "timeout"}}

Answers(bodies) ==
    {[net |-> "ok", status |-> s, body |-> b] :
        s \in {200, 201, 202}, b \in bodies}
      \cup {[net |-> "ok", status |-> s, body |-> NotJson] : s \in StatusCodes}

Responses(bodies) == Unreached \cup Answers(bodies)

\* a write request: the body of the answer is never looked at
WriteResponses == Responses({NotJson})

(***************************************************************************)
(* httpx, as utils.py uses it.                                             *)
(***************************************************************************)
\* a request as it goes out: method, path pattern, path argument
Req(m, path, arg) == [m |-> m, path |-> path, arg |-> arg]

\* client.get / post / ... : httpx.RequestError when the server is not reached
RequestFails(resp) == resp.net # "ok"

\* response.raise_for_status(): httpx.HTTPStatusError unless the status is 2xx
RaisesForStatus(resp) == ~Is2xx(resp.status)

\* response.json(): raises on a body that is not JSON
JsonFails(resp) == resp.body.t = "notjson"

\* get + raise_for_status + json inside one try block: "ok" and the data, or the
\* exception that left the block
GetJson(resp) ==
    IF RequestFails(resp) THEN [exc |-> "RequestError", data |-> PNull]
    ELSE IF RaisesForStatus(resp) THEN [exc |-> "HTTPStatusError", data |-> PNull]
    ELSE IF JsonFails(resp) THEN [exc |-> "JSONDecodeError", data |-> PNull]
    ELSE [exc |-> "none", data |-> resp.body]

(***************************************************************************)
(* Results of the API functions: None, a list of entities, a bool, a       *)
(* number, a dict, or an exception that reaches the caller.  reqs is the   *)
(* sequence of HTTP requests the call issued.                              *)
(***************************************************************************)
RNone(reqs)     == [kind |-> "None",  items |-> <<>>, b |-> FALSE, n |-> 0, reqs |-> reqs]
RList(xs, reqs) == [kind |-> "list",  items |-> xs,   b |-> FALSE, n |-> 0, reqs |-> reqs]
RBool(b, reqs)  == [kind |-> "bool",  items |-> <<>>, b |-> b,     n |-> 0, reqs |-> reqs]
RInt(n, reqs)   == [kind |-> "int",   items |-> <<>>, b |-> FALSE, n |-> n, reqs |-> reqs]
RDict(reqs)     == [kind |-> "dict",  items |-> <<>>, b |-> FALSE, n |-> 0, reqs |-> reqs]
RRaise(reqs)    == [kind |-> "raise", items |-> <<>>, b |-> FALSE, n |-> 0, reqs |-> reqs]

Get_NoDefault(v, default) == v

\* record.get(field, default)
Get(v, default) == IF v = Absent THEN default ELSE v

\* record.get(...) raises AttributeError on an element that is no dict
AllDicts(xs) == \A i \in 1..Len(xs) : xs[i].isdict

\* User(id=..get("id", ""), screen_name=..get("screen_name", "")), and likewise
\* Session, ChatRoom (name) and Category (id, name): name is the label field
Entity(e) == [id |-> Get(e.id, 0), name |-> Get(e.name, 0), category_id |-> 0]

Entities(xs) == [i \in 1..Len(xs) |-> Entity(xs[i])]

NoApiUrl_CheckDropped(url) == FALSE

\* `if not settings.api_url`
NoApiUrl(url) == url = ""

\* fetch_from_api: the parsed JSON, or None (PNull) on any error
fetch_from_api(url, resp, req) ==
    IF NoApiUrl(url) THEN [data |-> PNull, reqs |-> <<>>]
    ELSE LET h == GetJson(resp)
         IN  [data |-> IF h.exc # "none" THEN PNull ELSE h.data, reqs |-> <<req>>]

\* the comprehension over data["sessions"]: TypeError when it is not iterable,
\* AttributeError when an element is no dict
SessionsComprehensionRaises(d) == d.st # "list" \/ ~AllDicts(d.sitems)

fetch_active_sessions(url, resp) ==
    IF NoApiUrl(url) THEN RNone(<<>>)
    ELSE LET r == fetch_from_api(url, resp, Req("GET", "/session", 0))
             d == r.data
         IN  IF d.t = "null" THEN RNone(r.reqs)
             ELSE IF d.t = "dict" /\ d.has_sessions
                  THEN (IF d.st = "list" THEN RInt(Len(d.sitems), r.reqs)
                        ELSE RNone(r.reqs))
             ELSE IF d.t = "list" THEN RInt(Len(d.items), r.reqs)
             ELSE IF d.t = "dict" /\ d.has_count THEN RInt(1, r.reqs)
             ELSE IF d.t = "int" THEN RInt(1, r.reqs)
             ELSE RInt(0, r.reqs)

fetch_sessions(url, resp) ==
    IF NoApiUrl(url) THEN RNone(<<>>)
    ELSE LET r == fetch_from_api(url, resp, Req("GET", "/session", 0))
             d == r.data
         IN  IF d.t = "null" THEN RNone(r.reqs)
             ELSE IF d.t = "dict" /\ d.has_sessions
                  THEN (IF SessionsComprehensionRaises(d) THEN RRaise(r.reqs)
                        ELSE RList(Entities(d.sitems), r.reqs))
             ELSE IF d.t \in {"dict", "list"} THEN RList(<<>>, r.reqs)
             ELSE RNone(r.reqs)

\* fetch_user_sessions: as fetch_sessions, inside try/except Exception
fetch_user_sessions(url, resp, screen_name) ==
    IF NoApiUrl(url) THEN RNone(<<>>)
    ELSE LET r == fetch_from_api(url, resp, Req("GET", "/session/{screen_name}", screen_name))
             d == r.data
         IN  IF d.t = "null" THEN RNone(r.reqs)
             ELSE IF d.t = "dict" /\ d.has_sessions
                  THEN (IF SessionsComprehensionRaises(d) THEN RNone(r.reqs)
                        ELSE RList(Entities(d.sitems), r.reqs))
             ELSE RList(<<>>, r.reqs)

\* kick_session: a placeholder, no request
kick_session(url) == RBool(FALSE, <<>>)

\* direct_kick_user: a stub, no request
direct_kick_user(url) == RBool(FALSE, <<>>)

\* a list endpoint read inside one try block with except Exception: the element
\* conversion's AttributeError is caught there too
FetchListInTry(url, resp, req) ==
    IF NoApiUrl(url) THEN RNone(<<>>)
    ELSE LET h == GetJson(resp)
         IN  IF h.exc # "none" THEN RNone(<<req>>)
             ELSE IF h.data.t = "list"
                  THEN (IF AllDicts(h.data.items) THEN RList(Entities(h.data.items), <<req>>)
                        ELSE RNone(<<req>>))
             ELSE RList(<<>>, <<req>>)

fetch_chat_rooms(url, resp) == FetchListInTry(url, resp, Req("GET", "/chat/room/public", 0))

fetch_directory_categories(url, resp) ==
    FetchListInTry(url, resp, Req("GET", "/directory/category", 0))

fetch_total_users(url, resp) ==
    IF NoApiUrl(url) THEN RNone(<<>>)
    ELSE LET r == fetch_from_api(url, resp, Req("GET", "/user", 0))
         IN  IF r.data.t = "list" THEN RInt(Len(r.data.items), r.reqs) ELSE RNone(r.reqs)

fetch_users(url, resp) ==
    IF NoApiUrl(url) THEN RNone(<<>>)
    ELSE LET r == fetch_from_api(url, resp, Req("GET", "/user", 0))
             d == r.data
         IN  IF d.t = "null" THEN RNone(r.reqs)
             ELSE IF d.t = "list"
                  THEN (IF AllDicts(d.items) THEN RList(Entities(d.items), r.reqs)
                        ELSE RRaise(r.reqs))
             ELSE RNone(r.reqs)

\* fetch_user_details: `if data and isinstance(data, dict)`; an object of this
\* model is the empty object unless it has a key
fetch_user_details(url, resp, screen_name) ==
    IF NoApiUrl(url) THEN RNone(<<>>)
    ELSE LET r == fetch_from_api(url, resp, Req("GET", "/user/{screen_name}/account", screen_name))
             d == r.data
         IN  IF d.t = "dict" /\ (d.has_sessions \/ d.has_count) THEN RDict(r.reqs)
             ELSE RNone(r.reqs)

fetch_version_info(url, resp) ==
    IF NoApiUrl(url) THEN RNone(<<>>)
    ELSE LET r == fetch_from_api(url, resp, Req("GET", "/version", 0))
         IN  IF r.data.t = "dict" THEN RDict(r.reqs) ELSE RNone(r.reqs)

(***************************************************************************)
(* Writes.                                                                 *)
(***************************************************************************)
\* post / raise_for_status / return True, except ...: return False
WriteRaisingForStatus(url, resp, req) ==
    IF NoApiUrl(url) THEN RBool(FALSE, <<>>)
    ELSE RBool(~RequestFails(resp) /\ ~RaisesForStatus(resp), <<req>>)

\* `return response.status_code in (200, 204)`, without raise_for_status
StatusIn200Or204(resp) == resp.status \in {200, 204}

WriteCheckingStatus(url, resp, req) ==
    IF NoApiUrl(url) THEN RBool(FALSE, <<>>)
    ELSE RBool(~RequestFails(resp) /\ StatusIn200Or204(resp), <<req>>)

create_chat_room(url, resp, name) ==
    WriteRaisingForStatus(url, resp, Req("POST", "/chat/room/public", name))

delete_chat_room(url, resp, name) ==
    WriteCheckingStatus(url, resp, Req("DELETE", "/chat/room/public/{name}", name))

create_directory_category(url, resp, name) ==
    WriteRaisingForStatus(url, resp, Req("POST", "/directory/category", name))

delete_directory_category(url, resp, id) ==
    WriteCheckingStatus(url, resp, Req("DELETE", "/directory/category/{id}", id))

create_directory_keyword(url, resp, name) ==
    WriteRaisingForStatus(url, resp, Req("POST", "/directory/keyword", name))

delete_directory_keyword(url, resp, id) ==
    WriteCheckingStatus(url, resp, Req("DELETE", "/directory/keyword/{id}", id))

create_user(url, resp, name) ==
    WriteRaisingForStatus(url, resp, Req("POST", "/user", name))

\* raise_for_status, then `return response.status_code in (200, 204)`
update_user_status(url, resp, name) ==
    IF NoApiUrl(url) THEN RBool(FALSE, <<>>)
    ELSE RBool(~RequestFails(resp) /\ ~RaisesForStatus(resp) /\ StatusIn200Or204(resp),
               <<Req("PATCH", "/user/{screen_name}/account", name)>>)

delete_user(url, resp, name) ==
    WriteCheckingStatus(url, resp, Req("DELETE", "/user", name))

reset_user_password(url, resp, name) ==
    WriteCheckingStatus(url, resp, Req("PUT", "/user/password", name))

send_instant_message(url, resp, name) ==
    WriteRaisingForStatus(url, resp, Req("POST", "/instant-message", name))

(***************************************************************************)
(* fetch_directory_keywords.                                               *)
(***************************************************************************)
\* category_id=None
NoCategory == Absent

\* keyword records: id, category_id and the legacy parent, each present or not
KeywordElems ==
    [isdict : {TRUE}, id : Values \cup {Absent}, name : {Absent, 0},
     cat : Values \cup {Absent}, parent : Values \cup {Absent}] \cup {NonDict}

KeywordBodies ==
    ScalarBodies \cup {PList(xs) : xs \in SeqsUpTo(KeywordElems, MaxKwItems)}
      \cup {PDict(FALSE, FALSE, "none", <<>>)}

\* Keyword(id=..get("id", 0), name=..get("name", ""),
\*         category_id=..get("category_id", ..get("parent", 0)))
Keyword(e) ==
    [id |-> Get(e.id, 0), name |-> Get(e.name, 0), category_id |-> Get(e.cat, Get(e.parent, 0))]

\* the elements that are dicts, in order
RECURSIVE OnlyDicts(_)
OnlyDicts(xs) ==
    IF xs = <<>> THEN <<>>
    ELSE IF Head(xs).isdict THEN <<Head(xs)>> \o OnlyDicts(Tail(xs))
    ELSE OnlyDicts(Tail(xs))

\* the final conversion loop: one Keyword per dict of all_keywords
Keywords(xs) == LET ds == OnlyDicts(xs) IN [i \in 1..Len(ds) |-> Keyword(ds[i])]

Tagged_UnlessGiven(xs, cid) ==
    LET ds == OnlyDicts(xs)
    IN  [i \in 1..Len(ds) |-> [ds[i] EXCEPT !.cat = IF @ = Absent THEN cid ELSE @]]

\* item_with_category["category_id"] = category_id, for each dict of the answer
Tagged(xs, cid) ==
    LET ds == OnlyDicts(xs) IN [i \in 1..Len(ds) |-> [ds[i] EXCEPT !.cat = cid]]

KeywordReq(cid) == Req("GET", "/directory/category/{id}/keyword", cid)

\* the loop over the categories: the requests it issues and the records it collects
RECURSIVE PerCategory(_, _)
PerCategory(cats, perCat) ==
    IF cats = <<>> THEN [reqs |-> <<>>, kws |-> <<>>]
    ELSE LET c    == Head(cats).id
             h    == GetJson(perCat[c])
             rest == PerCategory(Tail(cats), perCat)
             got  == IF h.exc = "none" /\ h.data.t = "list" THEN Tagged(h.data.items, c)
                     ELSE <<>>
         IN  [reqs |-> <<KeywordReq(c)>> \o rest.reqs, kws |-> got \o rest.kws]

\* agg answers the request for category 0 made when category_id is None, catsResp
\* the category list request, perCat[c] the request for category c
fetch_directory_keywords(url, category_id, agg, catsResp, perCat) ==
    IF NoApiUrl(url) THEN RNone(<<>>)
    ELSE IF category_id # NoCategory
    THEN LET h == GetJson(perCat[category_id])
         IN  IF h.exc # "none" THEN RNone(<<KeywordReq(category_id)>>)
             ELSE IF h.data.t = "list"
                  THEN RList(Keywords(Tagged(h.data.items, category_id)),
                             <<KeywordReq(category_id)>>)
             ELSE RList(<<>>, <<KeywordReq(category_id)>>)
    ELSE LET h == GetJson(agg)
         IN  IF h.exc = "none" /\ h.data.t = "list" /\ h.data.items # <<>>
             THEN RList(Keywords(h.data.items), <<KeywordReq(0)>>)
             ELSE LET cats == fetch_directory_categories(url, catsResp)
                      loop == IF cats.kind = "list" /\ cats.items # <<>>
                              THEN PerCategory(cats.items, perCat)
                              ELSE [reqs |-> <<>>, kws |-> <<>>]
                  IN  RList(Keywords(loop.kws), <<KeywordReq(0)>> \o cats.reqs \o loop.reqs)

(***************************************************************************)
(* The API client on its own: any function, called with any arguments,     *)
(* against any server behaviour; the call is recorded until it returns.    *)
(***************************************************************************)
ApiUrls == {"", "http://localhost:5000"}

\* what /version and /user/{screen_name}/account can answer with: an object with
\* keys, the empty object, or something else
ObjectEndpointBodies ==
    ScalarBodies \cup {PList(<<>>), PDict(FALSE, FALSE, "none", <<>>),
                       PDict(FALSE, TRUE, "none", <<>>)}

Refused == [net |-> "refused", status |-> 0, body |-> NotJson]

NoPerCat == [c \in Values |-> Refused]

NoCall ==
    [fn |-> "none", url |-> "", arg |-> 0, resp |-> Refused, resp2 |-> Refused,
     percat |-> NoPerCat, res |-> RNone(<<>>)]

\* a call of a function that issues at most one request
Called(fn, arg, resp, res) ==
    [fn |-> fn, url |-> api_url, arg |-> arg, resp |-> resp, resp2 |-> Refused,
     percat |-> NoPerCat, res |-> res]

\* the answers the keyword endpoints give in calls that issue several requests
FallbackKeywordResponses ==
    {Refused, [net |-> "ok", status |-> 500, body |-> NotJson]}
      \cup {[net |-> "ok", status |-> 200, body |-> b] :
              b \in {NotJson, PScalar("int"), PList(<<>>), PList(<<NonDict>>)}
                      \cup {PList(<<[isdict |-> TRUE, id |-> 1, name |-> 0, cat |-> c,
                                     parent |-> Absent]>>) : c \in {Absent, 0}}
                      \cup {PList(<<[isdict |-> TRUE, id |-> 1, name |-> 0, cat |-> Absent,
                                     parent |-> 1]>>)}}

CategoryElems ==
    [isdict : {TRUE}, id : Values \cup {Absent}, name : {0}, cat : {Absent},
     parent : {Absent}] \cup {NonDict}

FallbackCategoryResponses ==
    {Refused, [net |-> "ok", status |-> 404, body |-> NotJson]}
      \cup {[net |-> "ok", status |-> 200, body |-> b] :
              b \in {NotJson, PScalar("int")} \cup ListBodies(CategoryElems)}

Call_fetch_active_sessions ==
    /\ call.fn = "none"
    /\ \E resp \in Responses(SessionEndpointBodies) :
          call' = Called("fetch_active_sessions", 0, resp, fetch_active_sessions(api_url, resp))
    /\ UNCHANGED <<api_url, pageVars, dirVars, dashVars, labelVars, detailVars, composerVars>>

Call_fetch_sessions ==
    /\ call.fn = "none"
    /\ \E resp \in Responses(SessionEndpointBodies) :
          call' = Called("fetch_sessions", 0, resp, fetch_sessions(api_url, resp))
    /\ UNCHANGED <<api_url, pageVars, dirVars, dashVars, labelVars, detailVars, composerVars>>

Call_fetch_user_sessions ==
    /\ call.fn = "none"
    /\ \E resp \in Responses(SessionEndpointBodies), name \in Values :
          call' = Called("fetch_user_sessions", name, resp, fetch_user_sessions(api_url, resp, name))
    /\ UNCHANGED <<api_url, pageVars, dirVars, dashVars, labelVars, detailVars, composerVars>>

Call_fetch_chat_rooms ==
    /\ call.fn = "none"
    /\ \E resp \in Responses(ListEndpointBodies) :
          call' = Called("fetch_chat_rooms", 0, resp, fetch_chat_rooms(api_url, resp))
    /\ UNCHANGED <<api_url, pageVars, dirVars, dashVars, labelVars, detailVars, composerVars>>

Call_fetch_directory_categories ==
    /\ call.fn = "none"
    /\ \E resp \in Responses(ListEndpointBodies) :
          call' = Called("fetch_directory_categories", 0, resp, fetch_directory_categories(api_url, resp))
    /\ UNCHANGED <<api_url, pageVars, dirVars, dashVars, labelVars, detailVars, composerVars>>

Call_fetch_total_users ==
    /\ call.fn = "none"
    /\ \E resp \in Responses(ListEndpointBodies) :
          call' = Called("fetch_total_users", 0, resp, fetch_total_users(api_url, resp))
    /\ UNCHANGED <<api_url, pageVars, dirVars, dashVars, labelVars, detailVars, composerVars>>

Call_fetch_users ==
    /\ call.fn = "none"
    /\ \E resp \in Responses(ListEndpointBodies) :
          call' = Called("fetch_users", 0, resp, fetch_users(api_url, resp))
    /\ UNCHANGED <<api_url, pageVars, dirVars, dashVars, labelVars, detailVars, composerVars>>

Call_fetch_user_details ==
    /\ call.fn = "none"
    /\ \E resp \in Responses(ObjectEndpointBodies), name \in Values :
          call' = Called("fetch_user_details", name, resp, fetch_user_details(api_url, resp, name))
    /\ UNCHANGED <<api_url, pageVars, dirVars, dashVars, labelVars, detailVars, composerVars>>

Call_fetch_version_info ==
    /\ call.fn = "none"
    /\ \E resp \in Responses(ObjectEndpointBodies) :
          call' = Called("fetch_version_info", 0, resp, fetch_version_info(api_url, resp))
    /\ UNCHANGED <<api_url, pageVars, dirVars, dashVars, labelVars, detailVars, composerVars>>

Call_kick_session ==
    /\ call.fn = "none"
    /\ \E id \in Values : call' = Called("kick_session", id, Refused, kick_session(api_url))
    /\ UNCHANGED <<api_url, pageVars, dirVars, dashVars, labelVars, detailVars, composerVars>>

Call_direct_kick_user ==
    /\ call.fn = "none"
    /\ \E name \in Values :
          call' = Called("direct_kick_user", name, Refused, direct_kick_user(api_url))
    /\ UNCHANGED <<api_url, pageVars, dirVars, dashVars, labelVars, detailVars, composerVars>>

Call_create_chat_room ==
    /\ call.fn = "none"
    /\ \E resp \in WriteResponses, key \in Values :
          call' = Called("create_chat_room", key, resp, create_chat_room(api_url, resp, key))
    /\ UNCHANGED <<api_url, pageVars, dirVars, dashVars, labelVars, detailVars, composerVars>>

Call_delete_chat_room ==
    /\ call.fn = "none"
    /\ \E resp \in WriteResponses, key \in Values :
          call' = Called("delete_chat_room", key, resp, delete_chat_room(api_url, resp, key))
    /\ UNCHANGED <<api_url, pageVars, dirVars, dashVars, labelVars, detailVars, composerVars>>

Call_create_directory_category ==
    /\ call.fn = "none"
    /\ \E resp \in WriteResponses, key \in Values :
          call' = Called("create_directory_category", key, resp, create_directory_category(api_url, resp, key))
    /\ UNCHANGED <<api_url, pageVars, dirVars, dashVars, labelVars, detailVars, composerVars>>

Call_delete_directory_category ==
    /\ call.fn = "none"
    /\ \E resp \in WriteResponses, key \in Values :
          call' = Called("delete_directory_category", key, resp, delete_directory_category(api_url, resp, key))
    /\ UNCHANGED <<api_url, pageVars, dirVars, dashVars, labelVars, detailVars, composerVars>>

Call_create_directory_keyword ==
    /\ call.fn = "none"
    /\ \E resp \in WriteResponses, key \in Values :
          call' = Called("create_directory_keyword", key, resp, create_directory_keyword(api_url, resp, key))
    /\ UNCHANGED <<api_url, pageVars, dirVars, dashVars, labelVars, detailVars, composerVars>>

Call_delete_directory_keyword ==
    /\ call.fn = "none"
    /\ \E resp \in WriteResponses, key \in Values :
          call' = Called("delete_directory_keyword", key, resp, delete_directory_keyword(api_url, resp, key))
    /\ UNCHANGED <<api_url, pageVars, dirVars, dashVars, labelVars, detailVars, composerVars>>

Call_create_user ==
    /\ call.fn = "none"
    /\ \E resp \in WriteResponses, key \in Values :
          call' = Called("create_user", key, resp, create_user(api_url, resp, key))
    /\ UNCHANGED <<api_url, pageVars, dirVars, dashVars, labelVars, detailVars, composerVars>>

Call_update_user_status ==
    /\ call.fn = "none"
    /\ \E resp \in WriteResponses, key \in Values :
          call' = Called("update_user_status", key, resp, update_user_status(api_url, resp, key))
    /\ UNCHANGED <<api_url, pageVars, dirVars, dashVars, labelVars, detailVars, composerVars>>

Call_delete_user ==
    /\ call.fn = "none"
    /\ \E resp \in WriteResponses, key \in Values :
          call' = Called("delete_user", key, resp, delete_user(api_url, resp, key))
    /\ UNCHANGED <<api_url, pageVars, dirVars, dashVars, labelVars, detailVars, composerVars>>

Call_reset_user_password ==
    /\ call.fn = "none"
    /\ \E resp \in WriteResponses, key \in Values :
          call' = Called("reset_user_password", key, resp, reset_user_password(api_url, resp, key))
    /\ UNCHANGED <<api_url, pageVars, dirVars, dashVars, labelVars, detailVars, composerVars>>

Call_send_instant_message ==
    /\ call.fn = "none"
    /\ \E resp \in WriteResponses, key \in Values :
          call' = Called("send_instant_message", key, resp, send_instant_message(api_url, resp, key))
    /\ UNCHANGED <<api_url, pageVars, dirVars, dashVars, labelVars, detailVars, composerVars>>

\* fetch_directory_keywords(session, category_id)
Call_fetch_directory_keywords_for ==
    /\ call.fn = "none"
    /\ \E cid \in Values, resp \in Responses(KeywordBodies) :
          LET percat == [c \in Values |-> IF c = cid THEN resp ELSE Refused]
          IN  call' = [fn |-> "fetch_directory_keywords", url |-> api_url, arg |-> cid,
                       resp |-> resp, resp2 |-> Refused, percat |-> percat,
                       res |-> fetch_directory_keywords(api_url, cid, Refused, Refused, percat)]
    /\ UNCHANGED <<api_url, pageVars, dirVars, dashVars, labelVars, detailVars, composerVars>>

\* fetch_directory_keywords(session): category_id is None
Call_fetch_directory_keywords_all ==
    /\ call.fn = "none"
    /\ \E agg \in FallbackKeywordResponses, catsResp \in FallbackCategoryResponses,
          percat \in [Values -> FallbackKeywordResponses] :
          call' = [fn |-> "fetch_directory_keywords_all", url |-> api_url,
                   arg |-> NoCategory, resp |-> agg, resp2 |-> catsResp, percat |-> percat,
                   res |-> fetch_directory_keywords(api_url, NoCategory, agg, catsResp, percat)]
    /\ UNCHANGED <<api_url, pageVars, dirVars, dashVars, labelVars, detailVars, composerVars>>

\* the call returns to its caller
ApiReturn ==
    /\ call.fn # "none"
    /\ call' = NoCall
    /\ UNCHANGED <<api_url, pageVars, dirVars, dashVars, labelVars, detailVars, composerVars>>

\* the operator saves another API URL in the settings
SaveApiUrl ==
    /\ call.fn = "none"
    /\ \E u \in ApiUrls : u # api_url /\ api_url' = u
    /\ UNCHANGED <<call, pageVars, dirVars, dashVars, labelVars, detailVars, composerVars>>

NextApi ==
    \/ Call_fetch_active_sessions
    \/ Call_fetch_sessions
    \/ Call_fetch_user_sessions
    \/ Call_fetch_chat_rooms
    \/ Call_fetch_directory_categories
    \/ Call_fetch_total_users
    \/ Call_fetch_users
    \/ Call_fetch_user_details
    \/ Call_fetch_version_info
    \/ Call_kick_session
    \/ Call_direct_kick_user
    \/ Call_create_chat_room
    \/ Call_delete_chat_room
    \/ Call_create_directory_category
    \/ Call_delete_directory_category
    \/ Call_create_directory_keyword
    \/ Call_delete_directory_keyword
    \/ Call_create_user
    \/ Call_update_user_status
    \/ Call_delete_user
    \/ Call_reset_user_password
    \/ Call_send_instant_message
    \/ Call_fetch_directory_keywords_for
    \/ Call_fetch_directory_keywords_all
    \/ ApiReturn
    \/ SaveApiUrl

\* an entity that is none: the callback was handed nothing
NoItem == [id |-> Absent, name |-> Absent, category_id |-> Absent]

\* the step just taken was none of the recorded ones
NoEvent ==
    [op |-> "none", row |-> 0, item |-> NoItem, kind |-> "none", before |-> <<>>,
     after |-> <<>>, late |-> FALSE]

\* no page controller is mounted
PageIdle ==
    /\ page = "none"
    /\ items = <<>>
    /\ is_loading = FALSE
    /\ has_error = FALSE
    /\ banner_text = ""
    /\ banner_style = "success"
    /\ tasks = <<>>
    /\ rendered = <<>>
    /\ last_event = NoEvent

\* the directory page is not mounted
DirIdle ==
    /\ categories = <<>>
    /\ category_keywords = <<>>
    /\ category_loading = <<>>
    /\ selected_category_id = 0
    /\ dir_banner = [text |-> "", style |-> "success"]
    /\ dir_flags = [is_loading |-> FALSE, has_error |-> FALSE]
    /\ dir_tasks = <<>>
    /\ dir_last = NoEvent

\* the four statistics of the dashboard
Stats == {"sessions", "chats", "users", "version"}

NoOutcome == [s \in Stats |-> "none"]

NoFetched == [s \in Stats |-> 0]

\* nothing to report about the dashboard step just taken
NoDashEvent == [op |-> "none", outcome |-> NoOutcome, fetched |-> NoFetched, was_loading |-> {}]

\* the fields of DashboardPage at construction: values 0 / "Unknown", every stat
\* loading, no error, no timer
DashIdle ==
    /\ stats = [s \in Stats |-> [value |-> 0, loading |-> TRUE, error |-> FALSE]]
    /\ is_loading_timeout = FALSE
    /\ timer = [pc |-> "none", k |-> 0]
    /\ loads = [pc |-> "none", pending |-> {}, outcome |-> NoOutcome, fetched |-> NoFetched]
    /\ dash_last = NoDashEvent

\* no CRUDList is built
LabelIdle ==
    /\ title = <<>>
    /\ item_name = <<>>

\* what a user-details step records: the handler, the result of the session
\* fetch it completed, whether the full list was asked for, and the full list
NoDetailEvent == [op |-> "none", kind |-> "none", fallback |-> FALSE, full |-> <<>>]

\* the fields of UserDetailsPage at construction, before __post_init__
DetailIdle ==
    /\ ud_screen_name = 0
    /\ ud_user = "None"
    /\ ud_sessions = <<>>
    /\ ud_is_loading = FALSE
    /\ ud_has_error = FALSE
    /\ ud_banner = ""
    /\ ud_tasks = <<>>
    /\ ud_last = NoDetailEvent

\* the fields of MessageComposer at construction
ComposerIdle ==
    /\ message_input = ""
    /\ is_sending = FALSE
    /\ send_error = FALSE
    /\ send_success = FALSE
    /\ sends = <<>>

\* RasApiSettings.api_url defaults to the local endpoint
InitApi ==
    /\ api_url = "http://localhost:5000"
    /\ call = NoCall
    /\ PageIdle
    /\ DirIdle
    /\ DashIdle
    /\ LabelIdle
    /\ DetailIdle
    /\ ComposerIdle

SpecApi == InitApi /\ [][NextApi]_vars
(***************************************************************************)
(* Claims about the API client, over the recorded call.                    *)
(***************************************************************************)
ListFetchFns ==
    {"fetch_users", "fetch_sessions", "fetch_user_sessions", "fetch_chat_rooms",
     "fetch_directory_categories", "fetch_directory_keywords",
     "fetch_directory_keywords_all"}

ReadFns ==
    ListFetchFns \cup {"fetch_active_sessions", "fetch_total_users", "fetch_user_details",
                       "fetch_version_info"}

WriteFns ==
    {"create_chat_room", "delete_chat_room", "create_directory_category",
     "delete_directory_category", "create_directory_keyword", "delete_directory_keyword",
     "create_user", "update_user_status", "delete_user", "reset_user_password",
     "send_instant_message"}

\* the server was not reached, or answered with an error status
Failed(resp) == RequestFails(resp) \/ ~Is2xx(resp.status)

\* every request the call could make met a failure
AllRequestsFailed(c) ==
    Failed(c.resp) /\ Failed(c.resp2) /\ \A k \in Values : Failed(c.percat[k])

\* C1: every list-fetch function returns None whenever the server could not be
\* reached or answered with an error for the requests the function made; an
\* unreachable server never produces an empty list.
C1_FailureIsNeverAnEmptyList ==
    (call.fn \in ListFetchFns /\ AllRequestsFailed(call)) => call.res.kind = "None"

\* C3: every API client function returns normally for every server behaviour; no
\* exception ever propagates to the calling page controller.
C3_NoExceptionPropagates ==
    call.fn # "none" => call.res.kind # "raise"

\* the body a read expects: a list of records, or an object (with a "sessions"
\* list of records for the session endpoints)
WellFormed(fn, body) ==
    IF fn \in {"fetch_users", "fetch_chat_rooms", "fetch_directory_categories",
               "fetch_directory_keywords", "fetch_total_users"}
    THEN body.t = "list" /\ AllDicts(body.items)
    ELSE IF fn \in {"fetch_sessions", "fetch_user_sessions", "fetch_active_sessions"}
    THEN body.t = "dict" /\ body.has_sessions /\ body.st = "list" /\ AllDicts(body.sitems)
    ELSE body.t = "dict" /\ body.has_count

SingleRequestReads == ReadFns \ {"fetch_directory_keywords_all"}

\* C4: for every API client call and every HTTP status code the server answers
\* with, the call reports success (True for writes, a non-None result for reads of a
\* well-formed body) if and only if the status is in the 2xx range, 201 and 202
\* included; this holds uniformly for create, update, delete and fetch calls.
C4_SuccessIffStatus2xx ==
    (call.fn # "none" /\ call.url # "" /\ call.resp.net = "ok") =>
        /\ call.fn \in WriteFns => (call.res.b <=> Is2xx(call.resp.status))
        /\ (call.fn \in SingleRequestReads /\ ~Is2xx(call.resp.status)) =>
               call.res.kind = "None"
        /\ (call.fn \in SingleRequestReads /\ Is2xx(call.resp.status)
              /\ WellFormed(call.fn, call.resp.body)) => call.res.kind \notin {"None", "raise"}

\* valid JSON of another shape than the one the function expects
ShapeMismatch(fn, body) ==
    IF fn \in {"fetch_sessions", "fetch_user_sessions"}
    THEN body.t \in {"list", "int", "str"} \/ (body.t = "dict" /\ ~body.has_sessions)
    ELSE body.t \in {"dict", "int", "str"}

\* C5: every read call that returns a collection, when the server is reached and
\* answers 2xx with valid JSON whose shape does not match the expected one, returns
\* an empty collection and not None.
C5_ShapeMismatchGivesEmptyList ==
    (call.fn \in ListFetchFns \ {"fetch_directory_keywords_all"} /\ call.url # ""
       /\ call.resp.net = "ok" /\ Is2xx(call.resp.status)
       /\ ShapeMismatch(call.fn, call.resp.body))
    => (call.res.kind = "list" /\ call.res.items = <<>>)

\* C6: when the settings' api_url is empty, every API client function returns its
\* failure value (None for reads, False for writes) and issues no HTTP request.
C6_NoUrlNoRequest ==
    (call.fn # "none" /\ call.url = "") =>
        /\ call.res.reqs = <<>>
        /\ call.fn \in ReadFns => call.res.kind = "None"
        /\ call.fn \in WriteFns => (call.res.kind = "bool" /\ ~call.res.b)

\* a write was called with no api_url while the server would have accepted it
C6_Witness ==
    /\ call.fn = "create_user"
    /\ call.url = ""
    /\ call.resp.net = "ok" /\ call.resp.status = 200
    /\ call.res = RBool(FALSE, <<>>)

(***************************************************************************)
(* The page controllers that feed one CRUDList: UsersPage, SessionsPage,   *)
(* ChatroomsPage.  A handler is a coroutine; it holds its position in      *)
(* tasks between two awaits, and other handlers run in between.            *)
(***************************************************************************)
PageKinds == {"users", "sessions", "chatrooms"}

\* the records the server holds: two of them share a label (screen name) under
\* different ids
PageElems ==
    {[isdict |-> TRUE, id |-> 1, name |-> 1, cat |-> Absent, parent |-> Absent],
     [isdict |-> TRUE, id |-> 2, name |-> 1, cat |-> Absent, parent |-> Absent],
     [isdict |-> TRUE, id |-> 3, name |-> 2, cat |-> Absent, parent |-> Absent]}

\* the lists the server answers with: no record twice
PageLists ==
    {xs \in SeqsUpTo(PageElems \cup {NonDict}, MaxRows) :
        \A i, j \in 1..Len(xs) : i # j => xs[i] # xs[j]}

\* what the list endpoint of the mounted page answers a load with
PageLoadResponses(kind) ==
    {Refused, [net |-> "ok", status |-> 500, body |-> NotJson]}
      \cup {[net |-> "ok", status |-> 200, body |-> b] :
              b \in {NotJson, PScalar("int")}
                    \cup (IF kind = "sessions"
                          THEN {PDict(TRUE, FALSE, "list", xs) : xs \in PageLists}
                                 \cup {PDict(FALSE, FALSE, "none", <<>>)}
                          ELSE {PList(xs) : xs \in PageLists})}

\* utils.fetch_users / fetch_sessions / fetch_chat_rooms, by page
PageFetch(kind, url, resp) ==
    IF kind = "users" THEN fetch_users(url, resp)
    ELSE IF kind = "sessions" THEN fetch_sessions(url, resp)
    ELSE fetch_chat_rooms(url, resp)

\* CRUDList.build: which content is shown
View(loading, error, xs) ==
    IF loading THEN "loading"
    ELSE IF error THEN "error"
    ELSE IF xs = <<>> THEN "empty"
    ELSE "populated"

BindItem_LastOfLoop(xs, k) == xs[Len(xs)]

\* `lambda item=item, cb=callback: ...`: the item of row k, bound when the row is built
BindItem(xs, k) == xs[k]

\* item_key_attr: "id" for users and sessions, "name" for chat rooms
ItemKey(kind, x) == IF kind = "chatrooms" THEN x.name ELSE x.id

\* CRUDList.build: one row per item, its key and the item its callbacks are bound to
Build(kind, xs) ==
    [k \in 1..Len(xs) |-> [key |-> ItemKey(kind, xs[k]), bound |-> BindItem(xs, k)]]

\* the action buttons that can be pressed (is_sensitive), by page
RowButtons(kind) == IF kind = "users" THEN {"reset", "delete"} ELSE {}

\* on_create_item is configured
HasCreate(kind) == kind \in {"users", "chatrooms"}

\* a modal dialog is open: nothing else can be pressed
DialogOpen(ts) == \E i \in 1..Len(ts) : ts[i].pc = "dialog"

\* late: another load of the collection was started after this one
Task(op, pc, item) == [op |-> op, pc |-> pc, item |-> item, late |-> FALSE]

\* a load is started: the loads still awaiting their response are no longer the
\* last one started
Superseded(ts) ==
    [j \in 1..Len(ts) |-> IF ts[j].pc = "fetch" THEN [ts[j] EXCEPT !.late = TRUE]
                          ELSE ts[j]]

RemoveAt(ts, i) == [j \in 1..(Len(ts) - 1) |-> IF j < i THEN ts[j] ELSE ts[j + 1]]

\* the page is opened: on_populate runs load_X up to its await
Mount ==
    /\ page = "none"
    /\ \E kind \in PageKinds : page' = kind
    /\ is_loading' = TRUE
    /\ has_error' = FALSE
    /\ tasks' = <<Task("load", "fetch", NoItem)>>
    /\ last_event' = NoEvent
    /\ UNCHANGED <<items, banner_text, banner_style, rendered, apiVars, dashVars, labelVars, detailVars, composerVars, dirVars>>

\* the Refresh button of the header, or Retry in the error view: on_refresh
PressRefresh ==
    /\ page \in PageKinds
    /\ ~DialogOpen(tasks)
    /\ Len(tasks) < MaxTasks
    /\ is_loading' = TRUE
    /\ has_error' = FALSE
    /\ tasks' = Append(Superseded(tasks), Task("load", "fetch", NoItem))
    /\ last_event' = [NoEvent EXCEPT !.op = "refresh"]
    /\ UNCHANGED <<page, items, banner_text, banner_style, rendered, apiVars, dashVars, labelVars, detailVars, composerVars, dirVars>>

\* load_X after its await, in the coroutine of a load or of a create
LoadComplete ==
    \E i \in 1..Len(tasks), resp \in PageLoadResponses(page) :
        /\ tasks[i].pc = "fetch"
        /\ LET res == PageFetch(page, api_url, resp)
           IN  /\ tasks' = RemoveAt(tasks, i)
               /\ last_event' = [NoEvent EXCEPT !.op = "load", !.kind = res.kind,
                                                !.after = res.items,
                                                !.late = tasks[i].late]
               /\ IF res.kind = "raise"
                  THEN UNCHANGED <<is_loading, has_error, items, banner_text,
                                   banner_style, rendered>>
                  ELSE /\ is_loading' = FALSE
                       /\ IF res.kind = "None"
                          THEN /\ has_error' = TRUE
                               /\ banner_text' = "load failed"
                               /\ banner_style' = "danger"
                               /\ UNCHANGED <<items, rendered>>
                          ELSE /\ items' = res.items
                               /\ rendered' = Build(page, res.items)
                               /\ banner_text' = IF banner_style = "danger" THEN ""
                                                 ELSE banner_text
                               /\ UNCHANGED <<has_error, banner_style>>
        /\ UNCHANGED <<page, apiVars, dashVars, labelVars, detailVars, composerVars, dirVars>>

\* the action button cb of row k is pressed: its callback runs up to the dialog
PressRowButton ==
    \E k \in 1..Len(rendered), cb \in RowButtons(page) :
        /\ View(is_loading, has_error, items) = "populated"
        /\ ~DialogOpen(tasks)
        /\ Len(tasks) < MaxTasks
        /\ tasks' = Append(tasks, Task(cb, "dialog", rendered[k].bound))
        /\ last_event' = [NoEvent EXCEPT !.op = "press", !.row = k,
                                         !.item = rendered[k].bound, !.before = items]
        /\ UNCHANGED <<page, items, is_loading, has_error, banner_text, banner_style,
                       rendered, apiVars, dashVars, labelVars, detailVars, composerVars, dirVars>>

\* the "Create New" row, or the button of the empty view: on_create_item
PressCreate ==
    /\ HasCreate(page)
    /\ View(is_loading, has_error, items) \in {"populated", "empty"}
    /\ ~DialogOpen(tasks)
    /\ Len(tasks) < MaxTasks
    /\ tasks' = Append(tasks, Task("create", "dialog", NoItem))
    /\ last_event' = NoEvent
    /\ UNCHANGED <<page, items, is_loading, has_error, banner_text, banner_style,
                   rendered, apiVars, dashVars, labelVars, detailVars, composerVars, dirVars>>

\* the operator answers the dialog: confirms (with the fields filled in) or cancels
DialogAnswer ==
    \E i \in 1..Len(tasks), yes \in BOOLEAN :
        /\ tasks[i].pc = "dialog"
        /\ tasks' = IF yes THEN [tasks EXCEPT ![i].pc = "request"] ELSE RemoveAt(tasks, i)
        /\ last_event' = IF yes THEN NoEvent
                         ELSE [NoEvent EXCEPT !.op = "cancel", !.kind = tasks[i].op]
        /\ UNCHANGED <<page, items, is_loading, has_error, banner_text, banner_style,
                       rendered, apiVars, dashVars, labelVars, detailVars, composerVars, dirVars>>

\* `self.users = [user for user in self.users if user.screen_name != screen_name]`
WithoutUser(xs, screen_name) ==
    LET Keep(x) == x.name # screen_name IN SelectSeq(xs, Keep)

Remaining_Regardless(success, xs, screen_name) == WithoutUser(xs, screen_name)

\* `if success: self.users = [...]`: the list is filtered only after a delete that
\* succeeded
Remaining(success, xs, screen_name) ==
    IF success THEN WithoutUser(xs, screen_name) ELSE xs

\* on_press_delete_user after utils.delete_user answered
DeleteComplete ==
    \E i \in 1..Len(tasks), resp \in WriteResponses :
        /\ tasks[i].op = "delete" /\ tasks[i].pc = "request"
        /\ LET x  == tasks[i].item
               ok == delete_user(api_url, resp, x.name).b
               after == Remaining(ok, items, x.name)
           IN  /\ items' = after
               /\ rendered' = Build(page, after)
               /\ banner_text' = IF ok THEN "deleted" ELSE "delete failed"
               /\ banner_style' = IF ok THEN "success" ELSE "danger"
               /\ last_event' = [NoEvent EXCEPT !.op = "delete", !.item = x,
                                   !.kind = IF ok THEN "True" ELSE "False",
                                   !.before = items, !.after = after]
        /\ tasks' = RemoveAt(tasks, i)
        /\ UNCHANGED <<page, is_loading, has_error, apiVars, dashVars, labelVars, detailVars, composerVars, dirVars>>

\* on_press_reset_password after utils.reset_user_password answered
ResetComplete ==
    \E i \in 1..Len(tasks), resp \in WriteResponses :
        /\ tasks[i].op = "reset" /\ tasks[i].pc = "request"
        /\ LET ok == reset_user_password(api_url, resp, tasks[i].item.name).b
           IN  /\ banner_text' = IF ok THEN "password reset" ELSE "reset failed"
               /\ banner_style' = IF ok THEN "success" ELSE "danger"
        /\ tasks' = RemoveAt(tasks, i)
        /\ last_event' = NoEvent
        /\ UNCHANGED <<page, items, is_loading, has_error, rendered, apiVars, dashVars, labelVars, detailVars, composerVars, dirVars>>

\* the name typed into the create dialog
NewName == 1

\* on_create_new_user / on_create_chat_room after the create call answered: on
\* success the coroutine goes on into load_X, up to its await
CreateComplete ==
    \E i \in 1..Len(tasks), resp \in WriteResponses :
        /\ tasks[i].op = "create" /\ tasks[i].pc = "request"
        /\ LET ok == IF page = "users" THEN create_user(api_url, resp, NewName).b
                     ELSE create_chat_room(api_url, resp, NewName).b
           IN  /\ IF ok
                  THEN /\ banner_text' = "created"
                       /\ banner_style' = "success"
                       /\ is_loading' = TRUE
                       /\ has_error' = FALSE
                       /\ tasks' = [Superseded(tasks) EXCEPT ![i].pc = "fetch"]
                  ELSE /\ banner_text' = "create failed"
                       /\ banner_style' = "danger"
                       /\ tasks' = RemoveAt(tasks, i)
                       /\ UNCHANGED <<is_loading, has_error>>
               /\ last_event' = [NoEvent EXCEPT !.op = "create",
                                                !.kind = IF ok THEN "True" ELSE "False"]
        /\ UNCHANGED <<page, items, rendered, apiVars, dashVars, labelVars, detailVars, composerVars, dirVars>>

NextPage ==
    \/ Mount
    \/ PressRefresh
    \/ LoadComplete
    \/ PressRowButton
    \/ PressCreate
    \/ DialogAnswer
    \/ DeleteComplete
    \/ ResetComplete
    \/ CreateComplete

SpecPage == InitApi /\ [][NextPage]_vars

(***************************************************************************)
(* DirectoryPage: the category list, the switcher, and the keyword cache   *)
(* behind the keyword CRUDList.                                            *)
(***************************************************************************)
\* category records as the server lists them: ids in increasing order, no id twice
RECURSIVE Increasing(_)
Increasing(xs) == Len(xs) < 2 \/ (xs[1] < xs[2] /\ Increasing(Tail(xs)))

DirCategoryLists ==
    {[i \in 1..Len(ids) |-> [isdict |-> TRUE, id |-> ids[i], name |-> ids[i],
                             cat |-> Absent, parent |-> Absent]] :
        ids \in {xs \in SeqsUpTo(Values, MaxRows) : Increasing(xs)}}

DirCategoryResponses ==
    {Refused} \cup {[net |-> "ok", status |-> 200, body |-> PList(xs)] : xs \in DirCategoryLists}

\* the keyword records one category endpoint answers with
DirKeywordLists ==
    {[i \in 1..Len(ids) |-> [isdict |-> TRUE, id |-> ids[i], name |-> 1,
                             cat |-> Absent, parent |-> Absent]] :
        ids \in {<<>>, <<1>>}}

DirKeywordResponses ==
    {Refused} \cup {[net |-> "ok", status |-> 200, body |-> PList(xs)] : xs \in DirKeywordLists}

\* d[k] = v on a dict
Put(d, k, v) == [x \in (DOMAIN d) \cup {k} |-> IF x = k THEN v ELSE d[x]]

\* d.get(k, default)
DictGet(d, k, default) == IF k \in DOMAIN d THEN d[k] ELSE default

Ids(xs) == [i \in 1..Len(xs) |-> xs[i].id]

Range(xs) == {xs[i] : i \in DOMAIN xs}

SwitcherValues_CategoriesOnly(cats) == Ids(cats)

\* switcher_values: [0] for Uncategorized, then every category id
SwitcherValues(cats) == <<0>> \o Ids(cats)

\* the keyword CRUDList of build: items, is_loading, has_error=False
KeywordItems == DictGet(category_keywords, selected_category_id, <<>>)

KeywordView ==
    View(DictGet(category_loading, selected_category_id, TRUE), FALSE, KeywordItems)

\* is_sensitive of the Delete Category button
DeleteButtonSensitive(selected) == selected # 0

DeleteTarget_CurrentSelection(category, selected) == selected

\* the id on_delete_category passes to utils.delete_directory_category
DeleteTarget(category, selected) == category.id

DTask(op, pc, cid, item) == [op |-> op, pc |-> pc, cid |-> cid, item |-> item, cats |-> <<>>]

\* the first category of the list whose id is the given one, NoItem when none
RECURSIVE FindCategory(_, _)
FindCategory(cats, id) ==
    IF cats = <<>> THEN NoItem
    ELSE IF Head(cats).id = id THEN Head(cats)
    ELSE FindCategory(Tail(cats), id)

DirBanner(text, style) == [text |-> text, style |-> style]

\* `if self.banner_text and self.banner_style == "danger": self.banner_text = ""`
ClearDanger(b) == IF b.style = "danger" THEN [b EXCEPT !.text = ""] ELSE b

\* the page is opened: on_populate runs load_directory_items up to its await
DirMount ==
    /\ page = "none"
    /\ page' = "directory"
    /\ dir_flags' = [is_loading |-> TRUE, has_error |-> FALSE]
    /\ dir_tasks' = <<DTask("populate", "fetch_categories", 0, NoItem)>>
    /\ dir_last' = NoEvent
    /\ UNCHANGED <<categories, category_keywords, category_loading, selected_category_id,
                   dir_banner, apiVars, dashVars, labelVars, detailVars, composerVars, items, is_loading, has_error, banner_text,
                   banner_style, tasks, rendered, last_event>>

\* load_directory_items after its await, in on_populate (which then starts the load
\* of the uncategorized keywords) or in on_create_category
CategoriesLoaded ==
    \E i \in 1..Len(dir_tasks), resp \in DirCategoryResponses :
        /\ dir_tasks[i].pc = "fetch_categories"
        /\ dir_tasks[i].op \in {"populate", "create_category"}
        /\ LET res == fetch_directory_categories(api_url, resp)
           IN  /\ IF res.kind = "None"
                  THEN /\ dir_flags' = [is_loading |-> FALSE, has_error |-> TRUE]
                       /\ dir_banner' = DirBanner("load failed", "danger")
                       /\ UNCHANGED categories
                  ELSE /\ dir_flags' = [dir_flags EXCEPT !.is_loading = FALSE]
                       /\ categories' = res.items
                       /\ dir_banner' = ClearDanger(dir_banner)
               /\ dir_last' = [NoEvent EXCEPT !.op = "load_categories", !.kind = res.kind]
        /\ IF dir_tasks[i].op = "populate"
           THEN /\ category_loading' = Put(category_loading, 0, TRUE)
                /\ dir_tasks' = [dir_tasks EXCEPT ![i] = DTask("load_kw", "fetch_keywords", 0, NoItem)]
           ELSE /\ dir_tasks' = RemoveAt(dir_tasks, i)
                /\ UNCHANGED category_loading
        /\ UNCHANGED <<category_keywords, selected_category_id, apiVars, dashVars, labelVars, detailVars, composerVars, pageVars>>

\* load_keywords_for_category / load_uncategorized_keywords after the await
KeywordsLoaded ==
    \E i \in 1..Len(dir_tasks), resp \in DirKeywordResponses :
        /\ dir_tasks[i].pc = "fetch_keywords"
        /\ LET cid == dir_tasks[i].cid
               res == fetch_directory_keywords(api_url, cid, Refused, Refused,
                                               [c \in Values |-> resp])
               keywords == IF res.kind = "list" THEN res.items ELSE <<>>
           IN  /\ category_keywords' = Put(category_keywords, cid, keywords)
               /\ category_loading' = Put(category_loading, cid, FALSE)
               /\ dir_last' = [NoEvent EXCEPT !.op = "load_kw", !.row = cid,
                                 !.kind = res.kind,
                                 !.before = DictGet(category_keywords, cid, <<>>),
                                 !.after = keywords]
        /\ dir_tasks' = RemoveAt(dir_tasks, i)
        /\ UNCHANGED <<categories, selected_category_id, dir_banner, dir_flags, apiVars,
                       dashVars, labelVars, detailVars, composerVars, pageVars>>

NeedsKeywords_Always(cache, cid) == TRUE

\* `if category_id not in self.category_keywords`
NeedsKeywords(cache, cid) == cid \notin DOMAIN cache

\* select_category_by_id, from the switcher
SelectCategory ==
    \E cid \in Range(SwitcherValues(categories)) :
        /\ page = "directory"
        /\ ~DialogOpen(dir_tasks)
        /\ cid # selected_category_id \/ cid = 0
        /\ selected_category_id' = cid
        /\ IF NeedsKeywords(category_keywords, cid)
           THEN /\ Len(dir_tasks) < MaxTasks
                /\ category_loading' = Put(category_loading, cid, TRUE)
                /\ dir_tasks' = Append(dir_tasks, DTask("load_kw", "fetch_keywords", cid, NoItem))
           ELSE UNCHANGED <<category_loading, dir_tasks>>
        /\ dir_last' = [NoEvent EXCEPT !.op = "select", !.row = cid]
        /\ UNCHANGED <<categories, category_keywords, dir_banner, dir_flags, apiVars,
                       dashVars, labelVars, detailVars, composerVars, pageVars>>

\* refresh_keywords_for_category(selected), from Refresh of the keyword list
RefreshKeywords ==
    /\ page = "directory"
    /\ ~DialogOpen(dir_tasks)
    /\ Len(dir_tasks) < MaxTasks
    /\ category_loading' = Put(category_loading, selected_category_id, TRUE)
    /\ dir_tasks' = Append(dir_tasks,
                           DTask("load_kw", "fetch_keywords", selected_category_id, NoItem))
    /\ dir_last' = [NoEvent EXCEPT !.op = "refresh"]
    /\ UNCHANGED <<categories, category_keywords, selected_category_id, dir_banner,
                   dir_flags, apiVars, dashVars, labelVars, detailVars, composerVars, pageVars>>

\* the Add Category button: on_create_category up to its dialog
PressCreateCategory ==
    /\ page = "directory"
    /\ ~DialogOpen(dir_tasks)
    /\ Len(dir_tasks) < MaxTasks
    /\ dir_tasks' = Append(dir_tasks, DTask("create_category", "dialog", 0, NoItem))
    /\ dir_last' = NoEvent
    /\ UNCHANGED <<categories, category_keywords, category_loading, selected_category_id,
                   dir_banner, dir_flags, apiVars, dashVars, labelVars, detailVars, composerVars, pageVars>>

\* the create row of the keyword list: on_create_keyword(selected) up to its fetch
\* of the categories.  The argument only preselects the parent in the dialog, where
\* the operator chooses the parent anyway, so the task does not carry it.
PressCreateKeyword ==
    /\ page = "directory"
    /\ KeywordView \in {"populated", "empty"}
    /\ ~DialogOpen(dir_tasks)
    /\ Len(dir_tasks) < MaxTasks
    /\ dir_tasks' = Append(dir_tasks,
                           DTask("create_keyword", "fetch_categories", 0, NoItem))
    /\ dir_last' = NoEvent
    /\ UNCHANGED <<categories, category_keywords, category_loading, selected_category_id,
                   dir_banner, dir_flags, apiVars, dashVars, labelVars, detailVars, composerVars, pageVars>>

\* on_create_keyword after its fetch of the categories: `if not categories` it gives
\* up with a banner, else it opens the dialog
CreateKeywordCategoriesFetched ==
    \E i \in 1..Len(dir_tasks), resp \in DirCategoryResponses :
        /\ dir_tasks[i].op = "create_keyword" /\ dir_tasks[i].pc = "fetch_categories"
        /\ LET res == fetch_directory_categories(api_url, resp)
           IN  IF res.kind = "None" \/ res.items = <<>>
               THEN /\ dir_banner' = DirBanner("no categories", "danger")
                    /\ dir_tasks' = RemoveAt(dir_tasks, i)
                    /\ dir_last' = [NoEvent EXCEPT !.op = "create_keyword_refused"]
               ELSE /\ dir_tasks' = [dir_tasks EXCEPT ![i].pc = "dialog",
                                                      ![i].cats = Ids(res.items)]
                    /\ dir_last' = [NoEvent EXCEPT !.op = "create_keyword_dialog"]
                    /\ UNCHANGED dir_banner
        /\ UNCHANGED <<categories, category_keywords, category_loading, selected_category_id,
                       dir_flags, apiVars, dashVars, labelVars, detailVars, composerVars, pageVars>>

\* the Delete Category button: delete_current_category, into on_delete_category up
\* to its dialog when the selected category is in the list
PressDeleteCategory ==
    /\ page = "directory"
    /\ DeleteButtonSensitive(selected_category_id)
    /\ ~DialogOpen(dir_tasks)
    /\ Len(dir_tasks) < MaxTasks
    /\ LET category == FindCategory(categories, selected_category_id)
       IN  IF selected_category_id = 0 \/ category = NoItem
           THEN UNCHANGED dir_tasks
           ELSE dir_tasks' = Append(dir_tasks,
                                    DTask("delete_category", "dialog", category.id, category))
    /\ dir_last' = [NoEvent EXCEPT !.op = "press_delete_category"]
    /\ UNCHANGED <<categories, category_keywords, category_loading, selected_category_id,
                   dir_banner, dir_flags, apiVars, dashVars, labelVars, detailVars, composerVars, pageVars>>

\* the delete button of row k of the keyword list: on_delete_keyword up to its dialog
PressDeleteKeyword ==
    \E k \in 1..Len(KeywordItems) :
        /\ page = "directory"
        /\ KeywordView = "populated"
        /\ ~DialogOpen(dir_tasks)
        /\ Len(dir_tasks) < MaxTasks
        /\ dir_tasks' = Append(dir_tasks,
                               DTask("delete_keyword", "dialog", 0, BindItem(KeywordItems, k)))
        /\ dir_last' = [NoEvent EXCEPT !.op = "press", !.row = k,
                          !.item = BindItem(KeywordItems, k), !.before = KeywordItems]
        /\ UNCHANGED <<categories, category_keywords, category_loading, selected_category_id,
                       dir_banner, dir_flags, apiVars, dashVars, labelVars, detailVars, composerVars, pageVars>>

\* dropdown_options of the keyword dialog: "Uncategorized (ID: 0)", then one option
\* per fetched category
ParentOptions(cats) == {0} \cup Range(cats)

\* the operator answers the dialog; confirming starts the write request.  In the
\* keyword dialog the parent is one of Uncategorized and the fetched categories.
DirDialogAnswer ==
    \E i \in 1..Len(dir_tasks), yes \in BOOLEAN :
        /\ dir_tasks[i].pc = "dialog"
        /\ IF ~yes THEN dir_tasks' = RemoveAt(dir_tasks, i)
           ELSE IF dir_tasks[i].op = "create_keyword"
           THEN \E parent \in ParentOptions(dir_tasks[i].cats) :
                    dir_tasks' = [dir_tasks EXCEPT ![i] =
                                     DTask("create_keyword", "request", parent, NoItem)]
           ELSE IF dir_tasks[i].op = "delete_category"
           THEN dir_tasks' = [dir_tasks EXCEPT ![i].pc = "request",
                                ![i].cid = DeleteTarget(dir_tasks[i].item, selected_category_id)]
           ELSE dir_tasks' = [dir_tasks EXCEPT ![i].pc = "request"]
        /\ dir_last' = IF yes THEN NoEvent
                       ELSE [NoEvent EXCEPT !.op = "cancel", !.kind = dir_tasks[i].op]
        /\ UNCHANGED <<categories, category_keywords, category_loading, selected_category_id,
                       dir_banner, dir_flags, apiVars, dashVars, labelVars, detailVars, composerVars, pageVars>>

\* on_create_category after utils.create_directory_category answered: on success
\* the coroutine goes on into load_directory_items, up to its await
CreateCategoryComplete ==
    \E i \in 1..Len(dir_tasks), resp \in WriteResponses :
        /\ dir_tasks[i].op = "create_category" /\ dir_tasks[i].pc = "request"
        /\ LET ok == create_directory_category(api_url, resp, NewName).b
           IN  /\ IF ok
                  THEN /\ dir_banner' = DirBanner("created", "success")
                       /\ dir_flags' = [is_loading |-> TRUE, has_error |-> FALSE]
                       /\ dir_tasks' = [dir_tasks EXCEPT ![i].pc = "fetch_categories"]
                  ELSE /\ dir_banner' = DirBanner("create failed", "danger")
                       /\ dir_tasks' = RemoveAt(dir_tasks, i)
                       /\ UNCHANGED dir_flags
               /\ dir_last' = [NoEvent EXCEPT !.op = "create_category",
                                              !.kind = IF ok THEN "True" ELSE "False"]
        /\ UNCHANGED <<categories, category_keywords, category_loading, selected_category_id,
                       apiVars, dashVars, labelVars, detailVars, composerVars, pageVars>>

\* on_create_keyword after utils.create_directory_keyword answered: on success it
\* marks the parent category as loading and goes on into load_keywords_for_category
CreateKeywordComplete ==
    \E i \in 1..Len(dir_tasks), resp \in WriteResponses :
        /\ dir_tasks[i].op = "create_keyword" /\ dir_tasks[i].pc = "request"
        /\ LET ok == create_directory_keyword(api_url, resp, NewName).b
           IN  /\ IF ok
                  THEN /\ dir_banner' = DirBanner("created", "success")
                       /\ category_loading' = Put(category_loading, dir_tasks[i].cid, TRUE)
                       /\ dir_tasks' = [dir_tasks EXCEPT ![i].pc = "fetch_keywords"]
                  ELSE /\ dir_banner' = DirBanner("create failed", "danger")
                       /\ dir_tasks' = RemoveAt(dir_tasks, i)
                       /\ UNCHANGED category_loading
               /\ dir_last' = [NoEvent EXCEPT !.op = "create_keyword",
                                              !.kind = IF ok THEN "True" ELSE "False"]
        /\ UNCHANGED <<categories, category_keywords, selected_category_id, dir_flags,
                       apiVars, dashVars, labelVars, detailVars, composerVars, pageVars>>

\* `self.categories = [c for c in self.categories if c.id != category.id]`
WithoutCategory(cats, id) ==
    LET Keep(c) == c.id # id IN SelectSeq(cats, Keep)

\* on_delete_category after utils.delete_directory_category answered: on success the
\* category leaves the list and, when it was the selected one, the selection falls
\* back to Uncategorized (select_category_by_id(0))
DeleteCategoryComplete ==
    \E i \in 1..Len(dir_tasks), resp \in WriteResponses :
        /\ dir_tasks[i].op = "delete_category" /\ dir_tasks[i].pc = "request"
        /\ LET category == dir_tasks[i].item
               ok == delete_directory_category(api_url, resp, dir_tasks[i].cid).b
               reselect == ok /\ selected_category_id = category.id
               after == IF ok THEN WithoutCategory(categories, category.id) ELSE categories
           IN  /\ categories' = after
               /\ dir_banner' = IF ok THEN DirBanner("deleted", "success")
                                ELSE DirBanner("delete failed", "danger")
               /\ selected_category_id' = IF reselect THEN 0 ELSE selected_category_id
               /\ IF reselect /\ NeedsKeywords(category_keywords, 0)
                  THEN /\ category_loading' = Put(category_loading, 0, TRUE)
                       /\ dir_tasks' = [dir_tasks EXCEPT ![i] =
                                          DTask("load_kw", "fetch_keywords", 0, NoItem)]
                  ELSE /\ dir_tasks' = RemoveAt(dir_tasks, i)
                       /\ UNCHANGED category_loading
               /\ dir_last' = [NoEvent EXCEPT !.op = "delete_category", !.item = category,
                                 !.row = dir_tasks[i].cid,
                                 !.kind = IF ok THEN "True" ELSE "False",
                                 !.before = categories, !.after = after]
        /\ UNCHANGED <<category_keywords, dir_flags, apiVars, dashVars, labelVars, detailVars, composerVars, pageVars>>

\* `[k for k in self.category_keywords[category_id] if k.id != keyword.id]`
WithoutKeyword(kws, id) ==
    LET Keep(k) == k.id # id IN SelectSeq(kws, Keep)

\* on_delete_keyword after utils.delete_directory_keyword answered
DeleteKeywordComplete ==
    \E i \in 1..Len(dir_tasks), resp \in WriteResponses :
        /\ dir_tasks[i].op = "delete_keyword" /\ dir_tasks[i].pc = "request"
        /\ LET keyword == dir_tasks[i].item
               ok == delete_directory_keyword(api_url, resp, keyword.id).b
               cid == keyword.category_id
               before == DictGet(category_keywords, cid, <<>>)
               after == IF ok THEN WithoutKeyword(before, keyword.id) ELSE before
           IN  /\ category_keywords' =
                      IF ok /\ cid \in DOMAIN category_keywords
                      THEN Put(category_keywords, cid, after)
                      ELSE category_keywords
               /\ dir_banner' = IF ok THEN DirBanner("deleted", "success")
                                ELSE DirBanner("delete failed", "danger")
               /\ dir_last' = [NoEvent EXCEPT !.op = "delete_keyword", !.item = keyword,
                                 !.kind = IF ok THEN "True" ELSE "False",
                                 !.before = before, !.after = after]
        /\ dir_tasks' = RemoveAt(dir_tasks, i)
        /\ UNCHANGED <<categories, category_loading, selected_category_id, dir_flags,
                       apiVars, dashVars, labelVars, detailVars, composerVars, pageVars>>

NextDir ==
    \/ DirMount
    \/ CategoriesLoaded
    \/ KeywordsLoaded
    \/ SelectCategory
    \/ RefreshKeywords
    \/ PressCreateCategory
    \/ PressCreateKeyword
    \/ CreateKeywordCategoriesFetched
    \/ PressDeleteCategory
    \/ PressDeleteKeyword
    \/ DirDialogAnswer
    \/ CreateCategoryComplete
    \/ CreateKeywordComplete
    \/ DeleteCategoryComplete
    \/ DeleteKeywordComplete

SpecDir == InitApi /\ [][NextDir]_vars

(***************************************************************************)
(* Claims about the lists and their page controllers.                      *)
(***************************************************************************)
\* what a list shows once a load has written its outcome: the error state for a
\* failed fetch, the empty state for a fetched empty list
ShowsOutcome(kind, fetched, view) ==
    /\ kind = "None" => view = "error"
    /\ (kind = "list" /\ fetched = <<>>) => view = "empty"

\* C2: after a load completes, a fetch that returned None leaves the list in the
\* error state and a fetch that returned an empty list leaves it in the empty state,
\* for the users, sessions and chat room lists and for the keyword list of the
\* selected category.
C2_LoadOutcomeIsShown ==
    /\ (last_event.op = "load" /\ ~is_loading)
          => ShowsOutcome(last_event.kind, last_event.after,
                          View(is_loading, has_error, items))
    /\ (dir_last.op = "load_kw" /\ dir_last.row = selected_category_id
          /\ KeywordView # "loading")
          => ShowsOutcome(dir_last.kind, dir_last.after, KeywordView)

\* the records of xs other than those with the key of x
OthersByKey(kind, xs, x) ==
    LET Keep(y) == ItemKey(kind, y) # ItemKey(kind, x) IN SelectSeq(xs, Keep)

\* C7: a confirmed and successful delete of x removes exactly one record, the one
\* with the key of x, and leaves every record with another key in place, also one
\* that has the label of x.
C7_DeleteRemovesOnlyTheKey ==
    (last_event.op = "delete" /\ last_event.kind = "True")
        => /\ last_event.after = OthersByKey(page, last_event.before, last_event.item)
           /\ Len(last_event.after) = Len(last_event.before) - 1

\* C8: the button of the k-th rendered row calls its callback with the k-th item of
\* that render.
C8_RowCallbackGetsItsItem ==
    last_event.op = "press"
        => /\ last_event.row \in 1..Len(last_event.before)
           /\ last_event.item = last_event.before[last_event.row]

\* the first of two different rows has been pressed
C8_Witness ==
    /\ last_event.op = "press"
    /\ last_event.row = 1
    /\ Len(last_event.before) = 2
    /\ last_event.before[1] # last_event.before[2]
    /\ last_event.item = last_event.before[1]

\* the coroutines of a load or a create that are awaiting the server
InFlight(ts) ==
    {i \in 1..Len(ts) : ts[i].op \in {"load", "create"} /\ ts[i].pc \in {"fetch", "request"}}

\* C9: at most one create or refresh is awaiting the server at any time.
C9_OneCreateOrRefreshInFlight == Cardinality(InFlight(tasks)) <= 1

\* the delete requests for a category that are awaiting the server
CategoryDeletes ==
    {i \in 1..Len(dir_tasks) :
        dir_tasks[i].op = "delete_category" /\ dir_tasks[i].pc = "request"}

\* C10: the switcher always offers 0, and no delete request is ever issued for
\* category id 0.
C10_UncategorizedStays ==
    /\ 0 \in Range(SwitcherValues(categories))
    /\ \A i \in CategoryDeletes : dir_tasks[i].cid # 0
    /\ dir_last.op = "delete_category" => dir_last.row # 0

\* a category is being deleted while the server's list holds a category of id 0
C10_Witness ==
    /\ CategoryDeletes # {}
    /\ FindCategory(categories, 0) # NoItem
    /\ 0 \in Range(SwitcherValues(categories))

\* C11: on_create_keyword always reaches the creation dialog, with Uncategorized
\* (id 0) among the parents it offers, also when the server has no categories.
C11_CreateKeywordReachesDialog ==
    dir_last.op \in {"create_keyword_refused", "create_keyword_dialog"}
        => \E i \in 1..Len(dir_tasks) :
               /\ dir_tasks[i].op = "create_keyword"
               /\ dir_tasks[i].pc = "dialog"
               /\ 0 \in ParentOptions(dir_tasks[i].cats)

(***************************************************************************)
(* Claims about fetch_directory_keywords, over the recorded call.          *)
(***************************************************************************)
\* the aggregate request yielded keywords: it answered with a list that holds at
\* least one usable keyword record
AggregateYieldedKeywords(agg) ==
    LET h == GetJson(agg)
    IN  h.exc = "none" /\ h.data.t = "list" /\ OnlyDicts(h.data.items) # <<>>

\* the requests of the fallback: the aggregate request, the category list, then one
\* request per category of that list, in list order
FallbackRequests(url, catsResp) ==
    LET cats == fetch_directory_categories(url, catsResp)
        ids  == IF cats.kind = "list" THEN cats.items ELSE <<>>
    IN  <<KeywordReq(0)>> \o cats.reqs \o [i \in 1..Len(ids) |-> KeywordReq(ids[i].id)]

\* C12: fetch_directory_keywords without a category id issues the aggregate request
\* first; it goes on to the category list and one request per category, in list
\* order, exactly when the aggregate request yielded no keywords, and issues no
\* further request when it did.
C12_AggregateThenFallback ==
    (call.fn = "fetch_directory_keywords_all" /\ call.url # "")
        => call.res.reqs = IF AggregateYieldedKeywords(call.resp)
                           THEN <<KeywordReq(0)>>
                           ELSE FallbackRequests(call.url, call.resp2)

\* the keywords a category endpoint answered with, each with the id of that category
FromCategory(resp, c) ==
    LET h  == GetJson(resp)
        ds == IF h.exc = "none" /\ h.data.t = "list" THEN OnlyDicts(h.data.items) ELSE <<>>
    IN  [i \in 1..Len(ds) |->
            [id |-> Get(ds[i].id, 0), name |-> Get(ds[i].name, 0), category_id |-> c]]

\* the same over the categories of a list, in list order
RECURSIVE FromCategories(_, _)
FromCategories(cats, percat) ==
    IF cats = <<>> THEN <<>>
    ELSE FromCategory(percat[Head(cats).id], Head(cats).id)
           \o FromCategories(Tail(cats), percat)

\* the call without a category id went on to the category list
FellBack(c) == c.fn = "fetch_directory_keywords_all" /\ Len(c.res.reqs) > 1

\* C13: in the per-category enumeration, and in a call for one category id, every
\* Keyword returned carries the id of the category whose endpoint returned it,
\* whatever category_id or parent the server's record carries or omits.
C13_KeywordsCarryTheirSourceCategory ==
    /\ (call.fn = "fetch_directory_keywords" /\ call.res.kind = "list")
          => call.res.items = FromCategory(call.resp, call.arg)
    /\ FellBack(call)
          => LET cats == fetch_directory_categories(call.url, call.resp2)
             IN  call.res.items = FromCategories(cats.items, call.percat)

\* the enumeration returned a keyword of category 1 whose record said category 0
C13_Witness ==
    /\ FellBack(call)
    /\ \E i \in 1..Len(call.res.items) : call.res.items[i].category_id = 1
    /\ LET h == GetJson(call.percat[1])
       IN  h.exc = "none" /\ h.data.t = "list" /\ h.data.items # <<>>
           /\ h.data.items[1].isdict /\ h.data.items[1].cat = 0

(***************************************************************************)
(* DashboardPage: four stat cards, load_stats with its fan-out and fan-in, *)
(* and the grace-period timer behind _timeout_task.                        *)
(***************************************************************************)
\* seconds _set_loading_timeout sleeps before it acts
GracePeriod == 5
\* seconds asyncio.wait_for gives each fetch of _load_X
FetchTimeout == 4

\* the order in which _set_loading_timeout makes its fresh attempts
StatOrder == <<"sessions", "chats", "users", "version">>

\* what the endpoint of a stat answers with: nothing, an empty collection, one record,
\* or (for /version) an object
DashResponses(s) ==
    {Refused}
      \cup {[net |-> "ok", status |-> 200, body |-> b] :
              b \in IF s = "sessions"
                    THEN {PDict(TRUE, FALSE, "list", <<>>), PDict(TRUE, FALSE, "list", <<NonDict>>)}
                    ELSE IF s = "version" THEN {PDict(FALSE, TRUE, "none", <<>>)}
                    ELSE {PList(<<>>),
                          PList(<<[isdict |-> TRUE, id |-> 1, name |-> 1, cat |-> Absent,
                                   parent |-> Absent]>>)}}

\* the utils function behind a stat
StatFetch(s, url, resp) ==
    IF s = "sessions" THEN fetch_active_sessions(url, resp)
    ELSE IF s = "chats" THEN fetch_chat_rooms(url, resp)
    ELSE IF s = "users" THEN fetch_total_users(url, resp)
    ELSE fetch_version_info(url, resp)

\* the value a stat shows for fetched data: the count, len(data), or the version
\* string of the object (1)
StatValue(s, res) ==
    IF s = "chats" THEN Len(res.items)
    ELSE IF s = "version" THEN 1
    ELSE res.n

\* what one awaited fetch comes to: asyncio.TimeoutError, None, or data
FetchOutcome(timed_out, res) ==
    IF timed_out THEN "timeout" ELSE IF res.kind = "None" THEN "None" ELSE "value"

\* _load_X after its await: the value or 0 with the error flag, and finally
\* loading = False
LoadedStat(old, s, timed_out, res) ==
    IF FetchOutcome(timed_out, res) = "value"
    THEN [old EXCEPT !.value = StatValue(s, res), !.loading = FALSE]
    ELSE [value |-> 0, loading |-> FALSE, error |-> TRUE]

\* a fresh attempt of _set_loading_timeout for one stat
RetriedStat(old, s, timed_out, res) ==
    IF FetchOutcome(timed_out, res) = "value"
    THEN [old EXCEPT !.value = StatValue(s, res), !.error = FALSE]
    ELSE [old EXCEPT !.value = 0, !.error = TRUE]

\* loading_X = True and has_error_X = False for the four cards
AllLoading(st) == [s \in Stats |-> [st[s] EXCEPT !.loading = TRUE, !.error = FALSE]]

\* loading_X = False for the four cards
NoneLoading(st) == [s \in Stats |-> [st[s] EXCEPT !.loading = FALSE]]

\* `if self.loading_X: has_error_X = True; value = 0`, read where the code reads it:
\* after the four flags were forced to False
MarkStillLoading(entry, st) ==
    [s \in Stats |-> IF st[s].loading THEN [st[s] EXCEPT !.error = TRUE, !.value = 0]
                     ELSE st[s]]

Sleeping == [pc |-> "sleep", k |-> 0]
NoTimer == [pc |-> "none", k |-> 0]

\* _cancel_timeout, and the cancel at the end of load_stats: the task behind
\* _timeout_task is cancelled wherever it stands.  A task cancelled during its
\* fresh attempts leaves through `except asyncio.CancelledError: pass`, past the
\* line that resets is_loading_timeout.
Cancelled(t) == NoTimer

\* `if not api_url or api_url == "http://localhost:500"`: the default replaces an
\* empty URL, in on_save_api_settings and in build
FixedUrl(url) == IF url = "" THEN "http://localhost:5000" ELSE url

\* on_mount: the four cards are set to loading, then load_stats arms the timer and
\* starts the four _load_X, each running up to its await
DashMount ==
    /\ page = "none"
    /\ page' = "dashboard"
    /\ stats' = AllLoading(stats)
    /\ timer' = Sleeping
    /\ loads' = [pc |-> "gather", pending |-> Stats, outcome |-> NoOutcome,
                 fetched |-> NoFetched]
    /\ dash_last' = NoDashEvent
    /\ UNCHANGED <<is_loading_timeout, apiVars, items, is_loading, has_error, banner_text,
                   banner_style, tasks, rendered, last_event, dirVars, labelVars, detailVars, composerVars>>

\* one _load_X of load_stats gets past its await: data, None, or the timeout of
\* wait_for
StatFetched ==
    \E s \in loads.pending, timed_out \in BOOLEAN : \E resp \in DashResponses(s) :
        LET res == StatFetch(s, api_url, resp)
        IN  /\ stats' = [stats EXCEPT ![s] = LoadedStat(@, s, timed_out, res)]
            /\ loads' = [loads EXCEPT !.pending = @ \ {s},
                                      !.outcome[s] = FetchOutcome(timed_out, res),
                                      !.fetched[s] = LoadedStat(stats[s], s, timed_out, res).value]
            /\ dash_last' = [NoDashEvent EXCEPT !.op = "fetched"]
            /\ UNCHANGED <<is_loading_timeout, timer, apiVars, pageVars, dirVars, labelVars, detailVars, composerVars>>

\* asyncio.gather returns in load_stats: the timer is cancelled
LoadStatsJoined ==
    /\ loads.pc = "gather"
    /\ loads.pending = {}
    /\ timer' = Cancelled(timer)
    /\ loads' = [pc |-> "done", pending |-> {}, outcome |-> NoOutcome, fetched |-> NoFetched]
    /\ dash_last' = [NoDashEvent EXCEPT !.op = "joined", !.outcome = loads.outcome,
                                        !.fetched = loads.fetched]
    /\ UNCHANGED <<stats, is_loading_timeout, apiVars, pageVars, dirVars, labelVars, detailVars, composerVars>>

\* what on_save_api_settings and on_api_url_confirm do to the cards and the timer:
\* all loading, no error, the old timer cancelled, a new one armed.  Their last
\* line, `self.load_stats()`, makes a coroutine that is never awaited or scheduled:
\* no fetch starts.
ResetAndArm(op) ==
    /\ stats' = AllLoading(stats)
    /\ timer' = Sleeping
    /\ dash_last' = [NoDashEvent EXCEPT !.op = op]
    /\ UNCHANGED <<is_loading_timeout, loads, call, pageVars, dirVars, labelVars, detailVars, composerVars>>

\* the Save button of the API settings
SaveApiSettings ==
    /\ page = "dashboard"
    /\ api_url' = FixedUrl(api_url)
    /\ ResetAndArm("save")

\* Enter in the API URL field: the text becomes the URL; build, which follows
\* because the cards changed, replaces an empty one by the default
ConfirmApiUrl ==
    /\ page = "dashboard"
    /\ \E text \in ApiUrls : api_url' = FixedUrl(text)
    /\ ResetAndArm("confirm")

\* _set_loading_timeout wakes up.  The sleep is longer than the timeout of the
\* fetches of load_stats, which started no later than the timer: while load_stats
\* is in gather the timer does not fire.
TimerFires ==
    /\ timer.pc = "sleep"
    /\ loads.pc = "gather" => GracePeriod <= FetchTimeout
    /\ LET cleared == NoneLoading(stats)
       IN  IF ~is_loading_timeout
           THEN /\ stats' = MarkStillLoading(stats, cleared)
                /\ is_loading_timeout' = TRUE
                /\ timer' = [pc |-> "attempt", k |-> 1]
           ELSE /\ stats' = cleared
                /\ timer' = NoTimer
                /\ UNCHANGED is_loading_timeout
    /\ dash_last' = [NoDashEvent EXCEPT !.op = "timer",
                       !.was_loading = {s \in Stats : stats[s].loading}]
    /\ UNCHANGED <<loads, apiVars, pageVars, dirVars, labelVars, detailVars, composerVars>>

\* one fresh attempt of _set_loading_timeout gets past its await; after the last
\* one is_loading_timeout is reset and the task ends
TimerAttempt ==
    /\ timer.pc = "attempt"
    /\ LET s == StatOrder[timer.k]
       IN  \E timed_out \in BOOLEAN, resp \in DashResponses(s) :
               stats' = [stats EXCEPT ![s] =
                           RetriedStat(@, s, timed_out, StatFetch(s, api_url, resp))]
    /\ IF timer.k = Len(StatOrder)
       THEN /\ timer' = NoTimer
            /\ is_loading_timeout' = FALSE
       ELSE /\ timer' = [timer EXCEPT !.k = @ + 1]
            /\ UNCHANGED is_loading_timeout
    /\ dash_last' = [NoDashEvent EXCEPT !.op = "attempt"]
    /\ UNCHANGED <<loads, apiVars, pageVars, dirVars, labelVars, detailVars, composerVars>>

NextDash ==
    \/ DashMount
    \/ StatFetched
    \/ LoadStatsJoined
    \/ SaveApiSettings
    \/ ConfirmApiUrl
    \/ TimerFires
    \/ TimerAttempt

SpecDash == InitApi /\ [][NextDash]_vars

\* ---------------------------------------------------------------------------
\* Dashboard claims
\* ---------------------------------------------------------------------------

FetchFailed(outcome) == outcome \in {"None", "timeout"}

\* C14: when load_stats has joined its four fetches, each stat's error flag is
\* set exactly if its own fetch gave None or timed out, and each stat whose fetch
\* gave data shows that data and is no longer loading.
C14_EachStatShowsItsOwnOutcome ==
    dash_last.op = "joined" =>
        \A s \in Stats :
            /\ stats[s].error <=> FetchFailed(dash_last.outcome[s])
            /\ dash_last.outcome[s] = "value" =>
                   /\ stats[s].value = dash_last.fetched[s]
                   /\ ~stats[s].loading

\* C15: when the grace-period timer fires, every stat that was still loading is
\* no longer loading and is marked as an error.
C15_TimerMarksLoadingStatsErrored ==
    dash_last.op = "timer" =>
        \A s \in dash_last.was_loading : ~stats[s].loading /\ stats[s].error

\* C16: when a settings save or a confirmed URL supersedes the work in progress,
\* no stat fetch of the earlier load_stats is still in flight.
C16_SaveCancelsEarlierFetches ==
    dash_last.op \in {"save", "confirm"} => loads.pending = {}

\* ---------------------------------------------------------------------------
\* Banner claim
\* ---------------------------------------------------------------------------

\* C17: when a load has completed with a list, no banner is shown any more,
\* whatever banner was shown before.
C17_SuccessfulLoadClearsBanner ==
    (last_event.op = "load" /\ last_event.kind = "list") => banner_text = ""

(***************************************************************************)
(* CRUDList: the singular label of the create button.  A string is the     *)
(* sequence of its characters.                                             *)
(***************************************************************************)
Lowers == <<"a", "b", "c", "d", "e", "f", "g", "h", "i", "j", "k", "l", "m",
            "n", "o", "p", "q", "r", "s", "t", "u", "v", "w", "x", "y", "z">>
Uppers == <<"A", "B", "C", "D", "E", "F", "G", "H", "I", "J", "K", "L", "M",
            "N", "O", "P", "Q", "R", "S", "T", "U", "V", "W", "X", "Y", "Z">>

\* str.isupper of one character
IsUpper(ch) == \E i \in DOMAIN Uppers : Uppers[i] = ch

IsLower(ch) == \E i \in DOMAIN Lowers : Lowers[i] = ch

\* str.lower and str.upper of one character
LowerCh(ch) == IF IsUpper(ch) THEN Lowers[CHOOSE i \in DOMAIN Uppers : Uppers[i] = ch] ELSE ch

UpperCh(ch) == IF IsLower(ch) THEN Uppers[CHOOSE i \in DOMAIN Lowers : Lowers[i] = ch] ELSE ch

\* str.lower
Lower(w) == [i \in 1..Len(w) |-> LowerCh(w[i])]

Upper(w) == [i \in 1..Len(w) |-> UpperCh(w[i])]

\* str.capitalize: the first character upper case, the rest lower case
Capitalize(w) == [i \in 1..Len(w) |-> IF i = 1 THEN UpperCh(w[i]) ELSE LowerCh(w[i])]

\* the dictionary of _get_singular_form
irregular_plurals ==
    <<"c", "a", "t", "e", "g", "o", "r", "i", "e", "s">> :> <<"c", "a", "t", "e", "g", "o", "r", "y">> @@
    <<"p", "r", "o", "p", "e", "r", "t", "i", "e", "s">> :> <<"p", "r", "o", "p", "e", "r", "t", "y">> @@
    <<"a", "c", "t", "i", "v", "i", "t", "i", "e", "s">> :> <<"a", "c", "t", "i", "v", "i", "t", "y">> @@
    <<"h", "i", "s", "t", "o", "r", "i", "e", "s">> :> <<"h", "i", "s", "t", "o", "r", "y">> @@
    <<"e", "n", "t", "r", "i", "e", "s">> :> <<"e", "n", "t", "r", "y">> @@
    <<"c", "o", "u", "n", "t", "r", "i", "e", "s">> :> <<"c", "o", "u", "n", "t", "r", "y">> @@
    <<"p", "o", "l", "i", "c", "i", "e", "s">> :> <<"p", "o", "l", "i", "c", "y">>

\* str.endswith of one character
EndsWith(w, ch) == Len(w) > 0 /\ w[Len(w)] = ch

get_singular_form_NoDictionary(plural) ==
    IF EndsWith(Lower(plural), "s") THEN SubSeq(plural, 1, Len(plural) - 1) ELSE plural

\* CRUDList._get_singular_form
get_singular_form(plural) ==
    LET lowercase_plural == Lower(plural)
    IN  IF lowercase_plural \in DOMAIN irregular_plurals
        THEN LET singular == irregular_plurals[lowercase_plural]
             IN  IF IsUpper(plural[1]) THEN Capitalize(singular) ELSE singular
        ELSE IF EndsWith(lowercase_plural, "s") THEN SubSeq(plural, 1, Len(plural) - 1)
        ELSE plural

HasSpace(w) == \E i \in 1..Len(w) : w[i] = " "

\* str.split(' '): the pieces between the spaces, empty pieces included
RECURSIVE Split(_)
Split(w) ==
    IF ~HasSpace(w) THEN <<w>>
    ELSE LET k == CHOOSE i \in 1..Len(w) : w[i] = " " /\ \A j \in 1..(i - 1) : w[j] # " "
         IN  <<SubSeq(w, 1, k - 1)>> \o Split(SubSeq(w, k + 1, Len(w)))

\* ' '.join
RECURSIVE Join(_)
Join(words) ==
    IF words = <<>> THEN <<>>
    ELSE IF Len(words) = 1 THEN words[1]
    ELSE words[1] \o <<" ">> \o Join(Tail(words))

\* item_name of CRUDList.build
ItemName(t) ==
    IF HasSpace(t)
    THEN LET words == Split(t)
             last_word == words[Len(words)]
             singular_last_word == get_singular_form(last_word)
         IN  Join(SubSeq(words, 1, Len(words) - 1) \o <<singular_last_word>>)
    ELSE get_singular_form(t)

\* the words titles are made of: the irregular plurals, regular plurals, and
\* words that are no plural
BaseWords ==
    {<<"c", "a", "t", "e", "g", "o", "r", "i", "e", "s">>,
     <<"p", "r", "o", "p", "e", "r", "t", "i", "e", "s">>,
     <<"a", "c", "t", "i", "v", "i", "t", "i", "e", "s">>,
     <<"h", "i", "s", "t", "o", "r", "i", "e", "s">>,
     <<"e", "n", "t", "r", "i", "e", "s">>,
     <<"c", "o", "u", "n", "t", "r", "i", "e", "s">>,
     <<"p", "o", "l", "i", "c", "i", "e", "s">>,
     <<"r", "o", "o", "m", "s">>,
     <<"u", "s", "e", "r", "s">>,
     <<"s", "t", "a", "t", "u", "s">>,
     <<"c", "a", "t", "e", "g", "o", "r", "y">>,
     <<"r", "o", "o", "m">>,
     <<"s">>,
     <<>>}

\* each word in lower case, capitalised, in upper case, and with a capital last letter
Cased(w) ==
    {w, Capitalize(w), Upper(w),
     [i \in 1..Len(w) |-> IF i = Len(w) THEN UpperCh(w[i]) ELSE w[i]]}

\* what may precede the last word of a title
Prefixes ==
    {<<>>, <<"C", "h", "a", "t", " ">>,
     <<"D", "i", "r", "e", "c", "t", "o", "r", "y", " ">>,
     <<"e", "n", "t", "r", "i", "e", "s", " ", " ">>}

Titles == {pre \o w : pre \in Prefixes, w \in UNION {Cased(b) : b \in BaseWords}}

\* CRUDList.build, with on_create_item set, for a title
BuildLabel ==
    \E t \in Titles :
        /\ title' = t
        /\ item_name' = ItemName(t)
        /\ UNCHANGED <<apiVars, pageVars, dirVars, dashVars, detailVars, composerVars>>

NextLabel == BuildLabel

SpecLabel == InitApi /\ [][NextLabel]_vars

\* ---------------------------------------------------------------------------
\* Label claim
\* ---------------------------------------------------------------------------

\* where the last word of a title starts: after its last space
LastWordStart(t) ==
    IF HasSpace(t) THEN 1 + CHOOSE i \in 1..Len(t) : t[i] = " " /\ \A j \in (i + 1)..Len(t) : t[j] # " "
    ELSE 1

IrregularSingulars ==
    {<<<<"c", "a", "t", "e", "g", "o", "r", "i", "e", "s">>, <<"c", "a", "t", "e", "g", "o", "r", "y">>>>,
     <<<<"p", "r", "o", "p", "e", "r", "t", "i", "e", "s">>, <<"p", "r", "o", "p", "e", "r", "t", "y">>>>,
     <<<<"a", "c", "t", "i", "v", "i", "t", "i", "e", "s">>, <<"a", "c", "t", "i", "v", "i", "t", "y">>>>,
     <<<<"h", "i", "s", "t", "o", "r", "i", "e", "s">>, <<"h", "i", "s", "t", "o", "r", "y">>>>,
     <<<<"e", "n", "t", "r", "i", "e", "s">>, <<"e", "n", "t", "r", "y">>>>,
     <<<<"c", "o", "u", "n", "t", "r", "i", "e", "s">>, <<"c", "o", "u", "n", "t", "r", "y">>>>,
     <<<<"p", "o", "l", "i", "c", "i", "e", "s">>, <<"p", "o", "l", "i", "c", "y">>>>}

\* the singular of one word, as the claim words it
SingularWord(w) ==
    IF \E p \in IrregularSingulars : p[1] = Lower(w)
    THEN LET p == CHOOSE q \in IrregularSingulars : q[1] = Lower(w)
         IN  [i \in 1..Len(p[2]) |-> IF i = 1 /\ IsUpper(w[1]) THEN UpperCh(p[2][i])
                                     ELSE p[2][i]]
    ELSE IF Len(w) > 0 /\ w[Len(w)] \in {"s", "S"} THEN SubSeq(w, 1, Len(w) - 1)
    ELSE w

\* the label the claim gives a title: all but the last word as they are, then the
\* singular of the last word
SingularLabel(t) ==
    SubSeq(t, 1, LastWordStart(t) - 1) \o SingularWord(SubSeq(t, LastWordStart(t), Len(t)))

\* C18: the label derived from a title is the title with only its last word made
\* singular: an irregular plural of the list (in any case) becomes its singular
\* with the case of the first letter kept, any other word ending in s loses that
\* last letter, any other word stays as it is.
C18_SingularLabel == item_name = SingularLabel(title)

C18_Witness ==
    /\ title = <<"D", "i", "r", "e", "c", "t", "o", "r", "y", " ">>
                 \o <<"C", "a", "t", "e", "g", "o", "r", "i", "e", "s">>
    /\ item_name = <<"D", "i", "r", "e", "c", "t", "o", "r", "y", " ">>
                     \o <<"C", "a", "t", "e", "g", "o", "r", "y">>

\* ---------------------------------------------------------------------------
\* Entity claim
\* ---------------------------------------------------------------------------

\* a field as the claim wants it in the entity: the server's value, or the default
OrDefault(v) == IF v = Absent THEN 0 ELSE v

\* the key-value records of the list a response carries
SentRecords(resp) ==
    LET h == GetJson(resp)
    IN  IF h.exc = "none" /\ h.data.t = "list" THEN OnlyDicts(h.data.items) ELSE <<>>

\* the key-value records under "sessions" of a response
SentSessions(resp) ==
    LET h == GetJson(resp)
    IN  IF h.exc = "none" /\ h.data.t = "dict" /\ h.data.has_sessions /\ h.data.st = "list"
        THEN OnlyDicts(h.data.sitems) ELSE <<>>

\* users, sessions, chat rooms and categories are built field by field from the
\* records sent
PlainEntitiesDefaulted ==
    /\ (call.fn \in {"fetch_users", "fetch_chat_rooms", "fetch_directory_categories"}
          /\ call.res.kind = "list")
          => LET recs == SentRecords(call.resp)
             IN  call.res.items = [i \in 1..Len(recs) |->
                     [id |-> OrDefault(recs[i].id), name |-> OrDefault(recs[i].name),
                      category_id |-> 0]]
    /\ (call.fn = "fetch_sessions" /\ call.res.kind = "list")
          => LET recs == SentSessions(call.resp)
             IN  call.res.items = [i \in 1..Len(recs) |->
                     [id |-> OrDefault(recs[i].id), name |-> OrDefault(recs[i].name),
                      category_id |-> 0]]

\* a call for the keywords that took them from one answer: that of the category
\* asked for, or that of the aggregate endpoint
KeywordsOfOneAnswer(c) ==
    /\ c.res.kind = "list"
    /\ \/ c.fn = "fetch_directory_keywords"
       \/ c.fn = "fetch_directory_keywords_all" /\ ~FellBack(c)

\* C19 as stated: every entity carries the server's value of each field present
\* and the default of each field missing; for a Keyword the default of
\* category_id is 0.
C19_MissingFieldsGetDefaults ==
    /\ PlainEntitiesDefaulted
    /\ KeywordsOfOneAnswer(call)
          => LET recs == SentRecords(call.resp)
             IN  call.res.items = [i \in 1..Len(recs) |->
                     [id |-> OrDefault(recs[i].id), name |-> OrDefault(recs[i].name),
                      category_id |-> OrDefault(recs[i].cat)]]

\* C19 as amended: as stated for users, sessions, chat rooms, categories and for
\* id and name of a Keyword; the category_id of a Keyword is the category asked
\* for when the call names one, and otherwise the record's category_id, or its
\* parent when category_id is missing, or 0 when both are missing.
C19_DefaultsWithKeywordCategory ==
    /\ PlainEntitiesDefaulted
    /\ KeywordsOfOneAnswer(call)
          => LET recs == SentRecords(call.resp)
             IN  call.res.items = [i \in 1..Len(recs) |->
                     [id |-> OrDefault(recs[i].id), name |-> OrDefault(recs[i].name),
                      category_id |->
                          IF call.fn = "fetch_directory_keywords" THEN call.arg
                          ELSE IF recs[i].cat # Absent THEN recs[i].cat
                          ELSE OrDefault(recs[i].parent)]]

\* the aggregate endpoint sent a keyword without category_id but with a parent, and
\* the Keyword built from it carries the parent
C19_Witness ==
    /\ call.fn = "fetch_directory_keywords_all" /\ ~FellBack(call)
    /\ call.res.kind = "list"
    /\ \E i \in 1..Len(call.res.items) :
           LET rec == SentRecords(call.resp)[i]
           IN  rec.cat = Absent /\ rec.parent = 1 /\ call.res.items[i].category_id = 1

(***************************************************************************)
(* The list pages and the directory page together: one of them is mounted. *)
(***************************************************************************)
NextUi == NextPage \/ NextDir

SpecUi == InitApi /\ [][NextUi]_vars

\* ---------------------------------------------------------------------------
\* Failed and cancelled mutations
\* ---------------------------------------------------------------------------

Mutations == {"create", "delete", "create_category", "create_keyword", "delete_category",
              "delete_keyword"}

\* the step just taken was a create or delete that the API client answered with
\* False, or the cancelling of the dialog of one
WasRefused(ev) ==
    \/ ev.op \in Mutations /\ ev.kind = "False"
    \/ ev.op = "cancel" /\ ev.kind \in Mutations

\* the load requests in flight
Loads(ts) == {i \in 1..Len(ts) : ts[i].pc \in {"fetch", "fetch_categories", "fetch_keywords"}}

\* C20: a create or delete that the API client reports as failed, or that the
\* operator cancels in the dialog, leaves the collection, the keyword cache, the
\* selection and the loading flags as they were and starts no load: on the users
\* and chat rooms pages and on the directory page.
C20_RefusedMutationChangesNothing ==
    [][/\ WasRefused(last_event') =>
              /\ items' = items /\ is_loading' = is_loading /\ has_error' = has_error
              /\ Cardinality(Loads(tasks')) <= Cardinality(Loads(tasks))
       /\ WasRefused(dir_last') =>
              /\ categories' = categories /\ category_keywords' = category_keywords
              /\ category_loading' = category_loading
              /\ selected_category_id' = selected_category_id /\ dir_flags' = dir_flags
              /\ Cardinality(Loads(dir_tasks')) <= Cardinality(Loads(dir_tasks))]_vars

\* a delete of a keyword failed with keywords in the cache; a create of a user failed
C20_Witness ==
    \/ /\ dir_last.op = "delete_keyword" /\ dir_last.kind = "False"
       /\ dir_last.before # <<>>
       /\ dir_banner.style = "danger"
    \/ /\ last_event.op = "create" /\ last_event.kind = "False"
       /\ items # <<>>

\* ---------------------------------------------------------------------------
\* Keyword cache claims
\* ---------------------------------------------------------------------------

\* the keyword fetches in flight for category c
KeywordFetches(ts, c) == {i \in 1..Len(ts) : ts[i].pc = "fetch_keywords" /\ ts[i].cid = c}

\* C21: selecting category c starts a keyword fetch for c exactly if c has no
\* entry in the keyword cache, and leaves every cache entry and the loading flag
\* of every other category as they were.
C21_SelectFetchesOnlyUncached ==
    [][dir_last'.op = "select" =>
          LET c == dir_last'.row
          IN  /\ IF c \notin DOMAIN category_keywords
                 THEN Cardinality(KeywordFetches(dir_tasks', c))
                        = Cardinality(KeywordFetches(dir_tasks, c)) + 1
                 ELSE dir_tasks' = dir_tasks
              /\ \A d \in Values \ {c} : KeywordFetches(dir_tasks', d) = KeywordFetches(dir_tasks, d)
              /\ category_keywords' = category_keywords
              /\ DOMAIN category_loading' \ {c} = DOMAIN category_loading \ {c}
              /\ \A d \in DOMAIN category_loading \ {c} :
                     category_loading'[d] = category_loading[d]]_vars

\* a category other than Uncategorized is selected whose keywords are cached: no
\* fetch for it is in flight
C21_Witness ==
    /\ dir_last.op = "select" /\ dir_last.row # 0
    /\ dir_last.row \in DOMAIN category_keywords
    /\ KeywordFetches(dir_tasks, dir_last.row) = {}
    /\ 0 \in DOMAIN category_keywords

\* C22: when a load of the keywords of a category fails, the keywords cached for
\* that category stay as they were and its loading flag is false.
C22_FailedKeywordLoadKeepsCache ==
    (dir_last.op = "load_kw" /\ dir_last.kind = "None") =>
        /\ ~DictGet(category_loading, dir_last.row, TRUE)
        /\ DictGet(category_keywords, dir_last.row, <<>>) = dir_last.before

(***************************************************************************)
(* UserDetailsPage.  load_user_details is a coroutine with two awaits: the *)
(* gather of the account and the per-user session fetch, and the fallback  *)
(* fetch of the full session list.                                         *)
(***************************************************************************)
\* screen names: 1 is "al", 2 is "AL", 3 is "bo"; 0 is ""
ScreenNames == {1, 2, 3}

\* str.lower
LowerName(n) == IF n = 2 THEN 1 ELSE n

\* the sessions the server holds, each with id and screen name
DetailElems ==
    {[isdict |-> TRUE, id |-> 1, name |-> 1, cat |-> Absent, parent |-> Absent],
     [isdict |-> TRUE, id |-> 2, name |-> 2, cat |-> Absent, parent |-> Absent],
     [isdict |-> TRUE, id |-> 3, name |-> 3, cat |-> Absent, parent |-> Absent]}

\* a session list the server answers with: no session twice
DetailLists(E) ==
    {xs \in SeqsUpTo(E, MaxRows) : \A i, j \in 1..Len(xs) : i # j => xs[i] # xs[j]}

\* what GET /user/{screen_name}/account answers with
AccountResponses ==
    {Refused, [net |-> "ok", status |-> 404, body |-> NotJson],
     [net |-> "ok", status |-> 200, body |-> PDict(FALSE, TRUE, "none", <<>>)]}

\* what GET /session/{screen_name} answers with: the sessions of that screen
\* name, or an error
UserSessionResponses(screen_name) ==
    {Refused, [net |-> "ok", status |-> 404, body |-> NotJson]}
      \cup {[net |-> "ok", status |-> 200, body |-> PDict(TRUE, FALSE, "list", xs)] :
              xs \in DetailLists({e \in DetailElems :
                                     LowerName(e.name) = LowerName(screen_name)})}

\* what GET /session answers with: any sessions, something that is no record,
\* or an error
AllSessionResponses ==
    {Refused, [net |-> "ok", status |-> 500, body |-> NotJson],
     [net |-> "ok", status |-> 200, body |-> PDict(TRUE, FALSE, "list", <<NonDict>>)]}
      \cup {[net |-> "ok", status |-> 200, body |-> PDict(TRUE, FALSE, "list", xs)] :
              xs \in DetailLists(DetailElems)}

\* [s for s in all_sessions if s.screen_name.lower() == self.screen_name.lower()]
OfScreenName(xs, screen_name) ==
    LET Same(s) == LowerName(s.name) = LowerName(screen_name)
    IN  SelectSeq(xs, Same)

\* a load_user_details coroutine: its position and the screen name its fetches
\* were created with
DetailTask(pc, screen_name) == [pc |-> pc, name |-> screen_name]

\* load_user_details up to its first await
StartLoad ==
    /\ ud_is_loading' = TRUE
    /\ ud_has_error' = FALSE
    /\ ud_banner' = ""
    /\ ud_tasks' = Append(ud_tasks, DetailTask("gather", ud_screen_name'))

\* "No screen name provided"
NoScreenName ==
    /\ ud_has_error' = TRUE
    /\ ud_banner' = "no screen name"
    /\ UNCHANGED <<ud_is_loading, ud_tasks>>

\* the end of load_user_details, after the sessions are settled
Finish(user, sessions) ==
    /\ ud_is_loading' = FALSE
    /\ ud_has_error' = (user = "None" \/ ud_has_error)
    /\ ud_banner' = IF user = "None" THEN "failed"
                    ELSE IF sessions = <<>> THEN "offline"
                    ELSE ud_banner

\* the page is opened with ?screen_name=...: __post_init__ and on_populate
DetailMount ==
    /\ ud_last.op = "none"
    /\ ud_tasks = <<>>
    /\ \E n \in ScreenNames \cup {0} :
         /\ ud_screen_name' = n
         /\ IF n # 0 THEN StartLoad ELSE NoScreenName
    /\ ud_last' = [NoDetailEvent EXCEPT !.op = "mount"]
    /\ UNCHANGED <<ud_user, ud_sessions, apiVars, pageVars, dirVars, dashVars,
                   labelVars, composerVars>>

\* the URL changes while the page is shown: on_page_change
DetailPageChange ==
    /\ ud_last.op # "none"
    /\ Len(ud_tasks) < MaxTasks
    /\ \E n \in ScreenNames \cup {0} :
         /\ ud_screen_name' = n
         /\ IF n = ud_screen_name
            THEN UNCHANGED <<ud_is_loading, ud_has_error, ud_banner, ud_tasks>>
            ELSE IF n # 0 THEN StartLoad ELSE NoScreenName
    /\ ud_last' = [NoDetailEvent EXCEPT !.op = "page_change"]
    /\ UNCHANGED <<ud_user, ud_sessions, apiVars, pageVars, dirVars, dashVars,
                   labelVars, composerVars>>

\* the Refresh button: on_refresh_pressed
DetailRefresh ==
    /\ ud_last.op # "none"
    /\ Len(ud_tasks) < MaxTasks
    /\ ud_screen_name' = ud_screen_name
    /\ StartLoad
    /\ ud_last' = [NoDetailEvent EXCEPT !.op = "refresh"]
    /\ UNCHANGED <<ud_user, ud_sessions, apiVars, pageVars, dirVars, dashVars,
                   labelVars, composerVars>>

\* load_user_details after asyncio.gather: both fetches have answered
DetailGathered ==
    \E i \in 1..Len(ud_tasks), aresp \in AccountResponses :
      \E sresp \in UserSessionResponses(ud_tasks[i].name) :
        /\ ud_tasks[i].pc = "gather"
        /\ LET u == fetch_user_details(api_url, aresp, ud_tasks[i].name)
               s == fetch_user_sessions(api_url, sresp, ud_tasks[i].name)
               user == IF u.kind = "dict" THEN "User" ELSE "None"
           IN  /\ ud_user' = user
               /\ ud_last' = [NoDetailEvent EXCEPT !.op = "gather", !.kind = s.kind,
                                                   !.fallback = (s.kind = "None")]
               /\ IF s.kind # "None"
                  THEN /\ ud_sessions' = s.items
                       /\ ud_tasks' = RemoveAt(ud_tasks, i)
                       /\ Finish(user, s.items)
                  ELSE /\ ud_tasks' = [ud_tasks EXCEPT ![i].pc = "fallback"]
                       /\ UNCHANGED <<ud_sessions, ud_is_loading, ud_has_error,
                                      ud_banner>>
        /\ UNCHANGED <<ud_screen_name, apiVars, pageVars, dirVars, dashVars,
                       labelVars, composerVars>>

\* load_user_details after `await utils.fetch_sessions`, the fallback
DetailFallbackFetched ==
    \E i \in 1..Len(ud_tasks), resp \in AllSessionResponses :
        /\ ud_tasks[i].pc = "fallback"
        /\ LET all_sessions == fetch_sessions(api_url, resp)
               sessions == IF all_sessions.kind = "list" /\ all_sessions.items # <<>>
                           THEN OfScreenName(all_sessions.items, ud_screen_name)
                           ELSE ud_sessions
           IN  /\ ud_tasks' = RemoveAt(ud_tasks, i)
               /\ ud_last' = [NoDetailEvent EXCEPT !.op = "fallback",
                                                   !.kind = all_sessions.kind,
                                                   !.full = all_sessions.items]
               /\ IF all_sessions.kind = "raise"
                  THEN UNCHANGED <<ud_sessions, ud_is_loading, ud_has_error, ud_banner>>
                  ELSE /\ ud_sessions' = sessions
                       /\ Finish(ud_user, sessions)
        /\ UNCHANGED <<ud_screen_name, ud_user, apiVars, pageVars, dirVars, dashVars,
                       labelVars, composerVars>>

NextDetail ==
    \/ DetailMount
    \/ DetailPageChange
    \/ DetailRefresh
    \/ DetailGathered
    \/ DetailFallbackFetched

SpecDetail == InitApi /\ [][NextDetail]_vars

(***************************************************************************)
(* User-details claims.                                                    *)
(***************************************************************************)
\* C23: the full session list is fetched exactly when the per-user lookup returned
\* None, and the fallback leaves the page with exactly the sessions of the full
\* list whose screen name is the page's, ignoring case.
C23_FallbackIffNoneAndFilters ==
    /\ ud_last.op = "gather" => (ud_last.fallback <=> ud_last.kind = "None")
    /\ (ud_last.op = "fallback" /\ ud_last.kind = "list") =>
          ud_sessions = OfScreenName(ud_last.full, ud_screen_name)

\* a load_user_details coroutine has just run to its end
LoadCompleted ==
    \/ ud_last.op = "gather" /\ ~ud_last.fallback
    \/ ud_last.op = "fallback" /\ ud_last.kind # "raise"

\* C28: once load_user_details has completed and no other load is in flight, every
\* session the page holds has the page's current screen name, ignoring case.
C28_SessionsBelongToScreenName ==
    (LoadCompleted /\ ud_tasks = <<>>) =>
        \A k \in 1..Len(ud_sessions) :
            LowerName(ud_sessions[k].name) = LowerName(ud_screen_name)

(***************************************************************************)
(* Claims about loads that end and loads that overlap.                     *)
(***************************************************************************)
\* C24: a load that was started leaves the loading state: once no load awaits its
\* response any more, is_loading is false and the view is populated, empty or error.
C24_EveryLoadLeavesLoading ==
    (page \in PageKinds /\ \A i \in 1..Len(tasks) : tasks[i].pc # "fetch") =>
        /\ ~is_loading
        /\ View(is_loading, has_error, items) \in {"populated", "empty", "error"}

\* C25: when two loads overlap and the one started last is answered first, the
\* answer to the earlier load, arriving later, leaves the collection and the error
\* flag as the load started last made them.
C25_LastStartedLoadWins ==
    [][(/\ last_event.op = "load" /\ ~last_event.late /\ last_event.kind # "raise"
        /\ last_event'.op = "load" /\ last_event'.late
        /\ \A i \in 1..Len(tasks') : tasks'[i].pc # "fetch")
          => (items' = items /\ has_error' = has_error)]_vars

(***************************************************************************)
(* The dashboard's re-entrancy flag.                                       *)
(***************************************************************************)
\* C26: is_loading_timeout is false whenever no timer task is in the middle of its
\* fresh attempts.
C26_FlagOnlyWhileRefetching == timer.pc # "attempt" => ~is_loading_timeout

(***************************************************************************)
(* The directory's selection.                                              *)
(***************************************************************************)
\* C27: selected_category_id is 0 or the id of a category in the controller's
\* category list.
C27_SelectionIsListed ==
    selected_category_id = 0 \/ selected_category_id \in Range(Ids(categories))

(***************************************************************************)
(* The two readers of /session.                                            *)
(***************************************************************************)
\* C29: for the payload a call of fetch_active_sessions or fetch_sessions met, the
\* count fetch_active_sessions computes is the length of the list fetch_sessions
\* returns, and one returns None exactly when the other does.
C29_CountIsLengthOfSessionList ==
    call.fn \in {"fetch_active_sessions", "fetch_sessions"} =>
        LET count    == fetch_active_sessions(call.url, call.resp)
            sessions == fetch_sessions(call.url, call.resp)
        IN  /\ count.kind = "None" <=> sessions.kind = "None"
            /\ count.kind = "int" => (sessions.kind = "list" /\ count.n = Len(sessions.items))

(***************************************************************************)
(* MessageComposer.  on_send_message is a coroutine with one await, the    *)
(* call of utils.send_instant_message; sends holds the message text each   *)
(* coroutine in flight was called with.                                    *)
(***************************************************************************)
\* what the operator types: nothing, a blank, or a message
Texts == {"", " ", "hi", "bye"}

\* str.strip
Strip(text) == IF text = " " THEN "" ELSE text

\* MessageComposer.target_user
TargetUser == 1

\* the most on_send_message coroutines awaiting the server at once
MaxSends == 3

\* on_message_input_change
InputChange ==
    /\ \E text \in Texts : message_input' = text
    /\ send_success' = FALSE
    /\ UNCHANGED <<is_sending, send_error, sends, apiVars, pageVars, dirVars,
                   dashVars, labelVars, detailVars>>

\* on_send_message up to its await or its early return: the Send button (sensitive
\* only while not sending) or on_confirm of the text input
SendRequested ==
    /\ \E via \in {"press", "confirm"} : via = "press" => ~is_sending
    /\ Len(sends) < MaxSends
    /\ IF Strip(message_input) = ""
       THEN /\ is_sending' = FALSE
            /\ send_error' = TRUE
            /\ send_success' = FALSE
            /\ UNCHANGED sends
       ELSE /\ is_sending' = TRUE
            /\ send_error' = FALSE
            /\ send_success' = FALSE
            /\ sends' = Append(sends, message_input)
    /\ UNCHANGED <<message_input, apiVars, pageVars, dirVars, dashVars, labelVars,
                   detailVars>>

\* on_send_message after `await utils.send_instant_message`
SendAnswered ==
    \E i \in 1..Len(sends), resp \in WriteResponses :
        /\ sends' = RemoveAt(sends, i)
        /\ is_sending' = FALSE
        /\ IF send_instant_message(api_url, resp, TargetUser).b
           THEN /\ message_input' = ""
                /\ send_success' = TRUE
                /\ UNCHANGED send_error
           ELSE /\ send_error' = TRUE
                /\ UNCHANGED <<message_input, send_success>>
        /\ UNCHANGED <<apiVars, pageVars, dirVars, dashVars, labelVars, detailVars>>

NextComposer ==
    \/ InputChange
    \/ SendRequested
    \/ SendAnswered

SpecComposer == InitApi /\ [][NextComposer]_vars

\* C30: send_success and send_error are never both true.
C30_SuccessAndErrorExclusive == ~(send_success /\ send_error)

====
